---- MODULE Spec2Model ----
(***************************************************************************)
(* Device directory, bulk parameter dump and trajectory replay of the      *)
(* robstride Python tools (cli.py, param_dump.py, replayPolicy.py).        *)
(*                                                                         *)
(* Sequences are 1-based here where Python is 0-based: a Python index k    *)
(* is the index k+1 below.  A Python dict is a sequence of its keys in     *)
(* insertion order together with a function on them.                       *)
(***************************************************************************)
EXTENDS Integers, Sequences, FiniteSets, TLC

\* ---------------------------------------------------------------- bounds
NumChannels == 2      \* CAN interfaces can0 .. can<NumChannels-1>
NumIds      == 2      \* actuator ids 1..NumIds seen by the CLI directory
MaxTargets  == 11     \* param_dump: the requested ids are 1..n, n <= MaxTargets
MaxPerChan  == 1      \* param_dump: a channel carries the devices 1..k, k <= MaxPerChan
MaxJoints   == 2      \* replay: number of joint names in the metadata
MaxSteps    == 2      \* replay: rows of the ndjson log
MaxT        == 2      \* replay: a row is up to MaxT seconds after the first row
MaxClock    == 2      \* replay: the wall clock runs freely up to MaxClock
Scale       == 1      \* replay: the --scale argument
MaxComps    == 5      \* version texts have up to MaxComps dot-separated components
MaxSegs     == 3      \* String payloads have up to MaxSegs NUL-separated segments
MaxPayloadLen == 30   \* numeric payloads have up to MaxPayloadLen bytes
MaxActuators == 2     \* the dump command displays up to MaxActuators actuators

\* ------------------------------------------------------ program constants
BulkThreshold == 10   \* param_dump.py: len(remaining_targets) > 10
POSIX_SCALE   == 1000000  \* replayPolicy.py: microseconds to seconds
Can0          == 1    \* "can0", the first channel
Canint        == <<Can0>>  \* replayPolicy.py replay(): canint = ["can0"]

Channels  == 1..NumChannels
DefaultInterfaces == [k \in 1..NumChannels |-> k]   \* can0,can1,... in order
DirIds    == 1..NumIds
NoChannel == 0        \* Python None / key absent from a dict

\* What one attempt on one interface does: the driver connects and the scan
\* answers, PyRobstrideDriver.connect raises, or scan_actuators raises.
Outcome == {"ok", "open_fail", "scan_fail"}

VARIABLES
  prog,          \* which program this process runs: "cli", "param_dump", "replay"
  present,       \* environment: present[ch] = ids of the devices wired to ch
  link,          \* environment: link[ch] = what an attempt on ch does in this run
  interfaces,    \* ctx.obj['interfaces'] / args.interfaces
  mute,          \* environment: devices whose dump_all_parameters yields nothing
  discovered,    \* cli.py _discovered_actuators: id -> interface or NoChannel
  lastCall,      \* history: what the most recent directory call did
  c_exit,        \* cli.py: exit status of the process (-1 while it runs)
  d_pc,          \* param_dump.main: "scan" (interface loop), "done"
  d_targets,     \* param_dump.main: target_ids
  d_k,           \* param_dump.main: number of the interface the loop is at
  d_locations,   \* param_dump.main: actuator_locations, id -> interface
  d_params,      \* param_dump.main: keys of all_parameters
  d_log,         \* history: per interface visited, what was scanned on it
  d_missing,     \* param_dump.main: missing_actuators
  d_rc,          \* param_dump.main: return value (-1 while running)
  r_pc,          \* replay: position in the coroutine
  r_kinfer,      \* parse_policy: kinfer2motorid (motor id of each joint name)
  r_ids,         \* replay argument ids: [given |-> FALSE] is None
  r_rows,        \* parse_policy: data, the parsed ndjson rows
  r_torque_data, \* policy['torque_data']: per step, the dict motor id -> torque
  r_time_rel,    \* policy['time_rel']
  r_k,           \* replay: number of the canint entry the loop is at
  r_drivers,     \* replay: drivers_actuators, in insertion order
  r_missing,     \* replay: missing_actuators
  r_start_time,  \* replay: start_time
  r_skipFirst,   \* replay: skipFirst
  r_time_idx,    \* replay: time_idx of the main loop
  r_wake,        \* replay: wall-clock time at which the pending sleep is over
  r_connects,    \* history: the connects made, each with how its interface ended
  r_sent,        \* history: every command handed to send_command, in order
  r_yields,      \* history: the numbers of commands sent when another task ran
  r_cancel,      \* the cancellation of the task: where replay was and how many
                 \* commands it had sent when it was requested (NoCancel: none)
  now,           \* environment: time.time()
  t_op,          \* parameter tools: the operation applied ("start": none yet)
  t_in,          \* parameter tools: its arguments
  t_out,         \* parameter tools: what it returned or raised
  p_maps         \* parameter_map.py: the module-level RS0x_PARAM_MAP tables

envVars  == <<prog, present, link, interfaces, mute>>
dirVars  == <<discovered, lastCall, c_exit>>
dumpVars == <<d_pc, d_targets, d_k, d_locations, d_params, d_log, d_missing, d_rc>>
rpVars   == <<r_pc, r_kinfer, r_ids, r_rows, r_torque_data, r_time_rel, r_k,
             r_drivers, r_missing, r_start_time, r_skipFirst, r_time_idx,
             r_wake, r_connects, r_sent, now,
             r_yields, r_cancel>>
schedVars == <<r_yields, r_cancel>>
parVars  == <<t_op, t_in, t_out, p_maps>>
vars     == <<envVars, dirVars, dumpVars, rpVars, parVars>>

\* ---------------------------------------------------------- small helpers
SetMin(S) == CHOOSE x \in S : \A y \in S : x <= y
SetMax(S) == CHOOSE x \in S : \A y \in S : x >= y
Range(s)  == {s[k] : k \in 1..Len(s)}

\* All sequences over S without repetition, of length lo..hi
InjSeqsOf(S, lo, hi) ==
  {q \in UNION {[1..n -> S] : n \in lo..hi} :
     \A a \in DOMAIN q : \A b \in DOMAIN q : q[a] = q[b] => a = b}

\* The device sets a bus may carry: the ids 1..k for some k <= n
Placements(n) == {1..k : k \in 0..n}

\* What each interface of a list does when it is tried
OutcomesOf(ifaces) == [k \in 1..Len(ifaces) |-> link[ifaces[k]]]

\* Bus Driver collaborator: scan(channel, idLow, idHigh) -> set<id>
ScanActuators(ch, lo, hi) == {i \in present[ch] : lo <= i /\ i <= hi}

\* ------------------------------------------------ cli.py device directory
\* One entry of the history of a call: the interface tried, the id range of
\* the scan, how the attempt ended and, when the scan answered, its answer.
\* An attempt is a connect; it is also a scan unless its status is "open_fail".
Attempt(ch, lo, hi, status, ids) ==
  [ch |-> ch, lo |-> lo, hi |-> hi, status |-> status, ids |-> ids]

NoCall == [op |-> "none", id |-> 0, lo |-> 0, hi |-> 0, result |-> NoChannel,
           attempts |-> <<>>, cachedBefore |-> NoChannel]

\* find_and_register_actuator, the loop from interface number k on.
\* Yields the interface returned (NoChannel for None) and the attempts made.
RECURSIVE FindFrom_NoReturn(_, _, _, _)
FindFrom_NoReturn(id, ifaces, out, k) ==
  IF k > Len(ifaces)
  THEN [result |-> NoChannel, attempts |-> <<>>]
  ELSE LET ch   == ifaces[k]
           rest == FindFrom_NoReturn(id, ifaces, out, k + 1)
       IN  IF out[k] # "ok"
           THEN [rest EXCEPT !.attempts = <<Attempt(ch, id, id, out[k], {})>> \o @]
           ELSE LET actuators == ScanActuators(ch, id, id)
                IN  [result   |-> IF rest.result = NoChannel /\ id \in actuators
                                  THEN ch ELSE rest.result,
                     attempts |-> <<Attempt(ch, id, id, "ok", actuators)>>
                                    \o rest.attempts]

RECURSIVE FindFrom(_, _, _, _)
FindFrom(id, ifaces, out, k) ==
  IF k > Len(ifaces)
  THEN [result |-> NoChannel, attempts |-> <<>>]
  ELSE LET ch   == ifaces[k]
           rest == FindFrom(id, ifaces, out, k + 1)
       IN  IF out[k] # "ok"
           THEN [rest EXCEPT !.attempts = <<Attempt(ch, id, id, out[k], {})>> \o @]
           ELSE LET actuators == ScanActuators(ch, id, id)
                IN  IF id \in actuators
                    THEN [result |-> ch,
                          attempts |-> <<Attempt(ch, id, id, "ok", actuators)>>]
                    ELSE [rest EXCEPT !.attempts =
                            <<Attempt(ch, id, id, "ok", actuators)>> \o @]

find_and_register_actuator(id, ifaces, out) == FindFrom(id, ifaces, out, 1)

\* get_actuator_driver(actuator_id, interfaces), as called once per id by
\* state, enable, disable, zero, move, dump and read.
get_actuator_driver(id) ==
  LET r == find_and_register_actuator(id, interfaces, OutcomesOf(interfaces))
  IN  /\ discovered' = IF r.result # NoChannel
                       THEN [discovered EXCEPT ![id] = r.result]
                       ELSE discovered
      /\ lastCall' = [op |-> "discover", id |-> id, lo |-> id, hi |-> id,
                      result |-> r.result, attempts |-> r.attempts,
                      cachedBefore |-> discovered[id]]
      /\ UNCHANGED <<envVars, parVars, dumpVars, rpVars, c_exit>>

RECURSIVE ScanFrom_AbortOnError(_, _, _, _, _, _)
ScanFrom_AbortOnError(d, ifaces, out, lo, hi, k) ==
  IF k > Len(ifaces)
  THEN [cache |-> d, attempts |-> <<>>]
  ELSE LET ch == ifaces[k]
       IN  IF out[k] # "ok"
           THEN [cache |-> d, attempts |-> <<Attempt(ch, lo, hi, out[k], {})>>]
           ELSE LET actuators == ScanActuators(ch, lo, hi)
                    d2 == [i \in DOMAIN d |->
                             IF i \in actuators THEN ch ELSE d[i]]
                IN  [ScanFrom_AbortOnError(d2, ifaces, out, lo, hi, k + 1)
                       EXCEPT !.attempts = <<Attempt(ch, lo, hi, "ok", actuators)>> \o @]

\* scan command, the loop from interface number k on, over the cache d.
RECURSIVE ScanFrom(_, _, _, _, _, _)
ScanFrom(d, ifaces, out, lo, hi, k) ==
  IF k > Len(ifaces)
  THEN [cache |-> d, attempts |-> <<>>]
  ELSE LET ch == ifaces[k]
       IN  IF out[k] # "ok"
           THEN [ScanFrom(d, ifaces, out, lo, hi, k + 1)
                   EXCEPT !.attempts = <<Attempt(ch, lo, hi, out[k], {})>> \o @]
           ELSE LET actuators == ScanActuators(ch, lo, hi)
                    d2 == [i \in DOMAIN d |->
                             IF i \in actuators THEN ch ELSE d[i]]
                IN  [ScanFrom(d2, ifaces, out, lo, hi, k + 1)
                       EXCEPT !.attempts = <<Attempt(ch, lo, hi, "ok", actuators)>> \o @]

scan(start_id, end_id) ==
  LET r == ScanFrom(discovered, interfaces, OutcomesOf(interfaces), start_id, end_id, 1)
  IN  /\ discovered' = r.cache
      /\ lastCall' = [op |-> "scan", id |-> 0, lo |-> start_id,
                      hi |-> end_id, result |-> NoChannel,
                      attempts |-> r.attempts, cachedBefore |-> NoChannel]
      /\ UNCHANGED <<envVars, parVars, dumpVars, rpVars, c_exit>>

\* ------------------------------------------------ param_dump.py main()
DumpIds  == 1..MaxTargets
DumpIdle ==
  /\ d_pc = "idle" /\ d_targets = <<>> /\ d_k = 0
  /\ d_locations = [i \in DumpIds |-> NoChannel]
  /\ d_params = {} /\ d_log = <<>> /\ d_missing = {} /\ d_rc = -1

NoCancel == [pc |-> "none", sent |-> 0]      \* no cancellation requested

ReplayIdle ==
  /\ r_pc = "idle" /\ r_kinfer = <<>> /\ r_ids = [given |-> FALSE, list |-> <<>>]
  /\ r_rows = <<>> /\ r_torque_data = <<>> /\ r_time_rel = <<>> /\ r_k = 0
  /\ r_drivers = <<>> /\ r_missing = <<>> /\ r_start_time = 0
  /\ r_skipFirst = TRUE /\ r_time_idx = 0 /\ r_wake = 0 /\ r_connects = <<>>
  /\ r_sent = <<>> /\ now = 0
  /\ r_yields = {} /\ r_cancel = NoCancel

\* remaining_targets = [tid for tid in target_ids if tid not in actuator_locations]
RemainingTargets(targets, locations) ==
  LET NotYet(t) == locations[t] = NoChannel IN SelectSeq(targets, NotYet)

\* Body of the try block for one interface, after driver.connect succeeded:
\* the scans issued (in order), the ids registered, and how the body ended.
\* failAt is the number of the scan_actuators call that raises (0: none).
ScanInterface(ch, remaining, failAt) ==
  IF remaining = <<>>
  THEN [status |-> "skipped", scans |-> <<>>, found |-> {}]
  ELSE IF Len(remaining) > BulkThreshold
  THEN LET lo == SetMin(Range(remaining))
           hi == SetMax(Range(remaining))
       IN  IF failAt > 0
           THEN [status |-> "scan_fail", scans |-> <<(<<lo, hi>>)>>, found |-> {}]
           ELSE [status |-> "ok", scans |-> <<(<<lo, hi>>)>>,
                 found |-> ScanActuators(ch, lo, hi) \cap Range(remaining)]
  ELSE IF failAt > 0
  THEN [status |-> "scan_fail",
        scans |-> [j \in 1..failAt |-> <<remaining[j], remaining[j]>>],
        found |-> {}]
  ELSE [status |-> "ok",
        scans |-> [j \in 1..Len(remaining) |-> <<remaining[j], remaining[j]>>],
        found |-> {t \in Range(remaining) : t \in ScanActuators(ch, t, t)}]

\* One iteration of "for interface_idx, interface in enumerate(interfaces, 1)"
DumpInterface ==
  /\ prog = "param_dump" /\ d_pc = "scan" /\ d_k <= Len(interfaces)
  /\ LET ch        == interfaces[d_k]
         remaining == RemainingTargets(d_targets, d_locations)
         nscans    == IF Len(remaining) > BulkThreshold THEN 1 ELSE Len(remaining)
         out       == link[ch]
     IN  \E failAt \in {1, nscans} :
           LET r == IF out = "open_fail"
                    THEN [status |-> "open_fail", scans |-> <<>>, found |-> {}]
                    ELSE ScanInterface(ch, remaining,
                                       IF out = "scan_fail" THEN failAt ELSE 0)
           IN  /\ d_locations' = [i \in DumpIds |->
                                    IF i \in r.found THEN ch ELSE d_locations[i]]
               /\ d_params' = d_params \cup (r.found \ mute)
               /\ d_log' = Append(d_log, [ch |-> ch, status |-> r.status,
                                          scans |-> r.scans, found |-> r.found,
                                          nremaining |-> Len(remaining)])
  /\ d_k' = d_k + 1
  /\ UNCHANGED <<envVars, parVars, dirVars, rpVars, d_pc, d_targets, d_missing, d_rc>>

MissingActuators_AllKeys(targets, locations) ==
  Range(targets) \ DOMAIN locations

\* missing_actuators = set(target_ids) - set(actuator_locations.keys())
MissingActuators(targets, locations) ==
  Range(targets) \ {i \in DOMAIN locations : locations[i] # NoChannel}

\* After the interface loop: the missing warning and the return value.
DumpFinish ==
  /\ prog = "param_dump" /\ d_pc = "scan" /\ d_k > Len(interfaces)
  /\ d_missing' = MissingActuators(d_targets, d_locations)
  /\ d_rc' = IF d_params = {} THEN 1 ELSE 0
  /\ d_pc' = "done"
  /\ UNCHANGED <<envVars, parVars, dirVars, rpVars, d_targets, d_k, d_locations, d_params, d_log>>

\* ------------------------------------------------ replayPolicy.py
Motors == 1..(2 * MaxJoints - 1)   \* the motors on the bus: joint j is driven by
                                   \* motor 2j-1, the ids between are other motors
NoIds  == [given |-> FALSE, list |-> <<>>]      \* ids=None

\* A Python dict: the sequence of its <<key, value>> items in insertion order.
DictKeys(d)   == [j \in 1..Len(d) |-> d[j][1]]
KeySet(d)     == {d[j][1] : j \in 1..Len(d)}
DictGet(d, k) == d[CHOOSE j \in 1..Len(d) : d[j][1] = k][2]
DictPut(d, k, v) ==
  IF k \in KeySet(d)
  THEN [j \in 1..Len(d) |-> IF d[j][1] = k THEN <<k, v>> ELSE d[j]]
  ELSE Append(d, <<k, v>>)

\* Two of the orders in which a scan may report the ids that answered:
\* ascending (the order of the probes) and descending
ScanOrders(S) ==
  LET n   == Cardinality(S)
      asc == [k \in 1..n |-> CHOOSE x \in S : Cardinality({y \in S : y < x}) = k - 1]
  IN  {asc, [k \in 1..n |-> asc[n + 1 - k]]}

\* motorid_to_kinferidx[m]: the last kinfer index whose motor id is m
MotorIdToKinferIdx(kinfer, m) ==
  SetMax({idx \in 1..Len(kinfer) : kinfer[idx] = m})

\* selected_kinfer_indices
SelectedKinferIndices(kinfer, ids) ==
  IF ids.given
  THEN LET Known(m) == m \in Range(kinfer)
           wanted   == SelectSeq(ids.list, Known)
       IN  [k \in 1..Len(wanted) |-> MotorIdToKinferIdx(kinfer, wanted[k])]
  ELSE [k \in 1..Len(kinfer) |-> k]

\* torque_row of one data row: filled in zip order from position k on
RECURSIVE TorqueRowFrom(_, _, _, _, _)
TorqueRowFrom(joint_torques, sel, kinfer, k, acc) ==
  IF k > Len(sel) THEN acc
  ELSE TorqueRowFrom(joint_torques, sel, kinfer, k + 1,
                     DictPut(acc, kinfer[sel[k]], joint_torques[sel[k]] * Scale))

\* Lines 94-100: all rows have the key set of the first row
SameKeySets(torque_data) ==
  \A r \in 1..Len(torque_data) : KeySet(torque_data[r]) = KeySet(torque_data[1])

\* parse_policy: status "ok", "exit" (line 100) or "IndexError" (line 90)
parse_policy(rows, kinfer, ids) ==
  LET sel      == SelectedKinferIndices(kinfer, ids)
      short    == \E r \in 1..Len(rows) : \E k \in 1..Len(sel) :
                     sel[k] > Len(rows[r].joint_torques)
      time_abs == [r \in 1..Len(rows) |-> rows[r].t_us \div POSIX_SCALE]
      time_rel == [r \in 1..Len(rows) |-> time_abs[r] - time_abs[1]]
      torque_data == [r \in 1..Len(rows) |->
                        TorqueRowFrom(rows[r].joint_torques, sel, kinfer, 1, <<>>)]
  IN  IF short
      THEN [status |-> "IndexError", torque_data |-> <<>>, time_rel |-> <<>>]
      ELSE IF ~SameKeySets(torque_data)
      THEN [status |-> "exit", torque_data |-> <<>>, time_rel |-> <<>>]
      ELSE [status |-> "ok", torque_data |-> torque_data, time_rel |-> time_rel]

\* replay lines 112-122: load the policy; torque_data[0] needs one row
ReplayLoad ==
  /\ prog = "replay" /\ r_pc = "start"
  /\ LET p == parse_policy(r_rows, r_kinfer, r_ids)
     IN  /\ r_pc' = IF p.status = "IndexError" THEN "crash_load"
                    ELSE IF p.status = "exit" THEN "exit_shape"
                    ELSE IF p.torque_data = <<>> THEN "crash_load"
                    ELSE "discover"
         /\ r_torque_data' = p.torque_data
         /\ r_time_rel' = p.time_rel
  /\ r_k' = 1
  /\ UNCHANGED <<envVars, parVars, dirVars, dumpVars, schedVars, r_kinfer, r_ids, r_rows, r_drivers,
                 r_missing, r_start_time, r_skipFirst, r_time_idx, r_wake,
                 r_connects, r_sent, now>>

\* actuators = torque_data[0].keys()
Actuators == DictKeys(r_torque_data[1])

\* found_actuators: the scanned ids that are in actuators, in scan order
FoundActuators(return_ids, actuators) ==
  LET Wanted(i) == i \in Range(actuators) IN SelectSeq(return_ids, Wanted)

\* replay lines 125-145: one iteration of "for interface_name in canint"
ReplayInterface ==
  /\ prog = "replay" /\ r_pc = "discover" /\ r_k <= Len(Canint)
  /\ LET ch       == Canint[r_k]
         Log(st)  == Append(r_connects, [ch |-> ch, status |-> st])
         out      == link[ch]
     IN    \* driver.connect is outside the try block: its exception leaves replay
           IF out = "open_fail"
           THEN /\ r_pc' = "crash_connect"
                /\ r_connects' = Log(out)
                /\ UNCHANGED <<r_drivers, r_k>>
           \* min() of no actuators raises ValueError, scan_actuators may
           \* raise: the except block calls exit()
           ELSE IF Actuators = <<>> \/ out = "scan_fail"
           THEN /\ r_pc' = "exit_scan"
                /\ r_connects' = Log(IF Actuators = <<>> THEN "ValueError" ELSE out)
                /\ UNCHANGED <<r_drivers, r_k>>
           ELSE /\ r_connects' = Log(out)
                /\ \E return_ids \in ScanOrders(ScanActuators(ch,
                                       SetMin(Range(Actuators)),
                                       SetMax(Range(Actuators)))) :
                     LET found == FoundActuators(return_ids, Actuators)
                     IN  r_drivers' = IF found # <<>>
                                      THEN Append(r_drivers, [ch |-> ch, ids |-> found])
                                      ELSE r_drivers
                /\ r_k' = r_k + 1
                /\ r_pc' = r_pc
  /\ UNCHANGED <<envVars, parVars, dirVars, dumpVars, schedVars, r_kinfer, r_ids, r_rows,
                 r_torque_data, r_time_rel, r_missing, r_start_time,
                 r_skipFirst, r_time_idx, r_wake, r_sent, now>>

\* all_found_actuators
RECURSIVE AllFound(_, _)
AllFound(drivers, k) ==
  IF k > Len(drivers) THEN <<>> ELSE drivers[k].ids \o AllFound(drivers, k + 1)

MissingInReplay_NoneMissing(actuators, drivers) == <<>>

\* missing_actuators = [id for id in actuators if id not in all_found_actuators]
MissingInReplay(actuators, drivers) ==
  LET NotFound(i) == i \notin Range(AllFound(drivers, 1))
  IN  SelectSeq(actuators, NotFound)

DataByDriver_ReversedIds(torque_data, drivers, t) ==
  [d \in 1..Len(drivers) |->
     LET InRow(i) == i \in KeySet(torque_data[t])
         ids      == SelectSeq(drivers[d].ids, InRow)
     IN  [ch |-> drivers[d].ch,
          pos |-> [j \in 1..Len(ids) |->
                     <<ids[Len(ids) + 1 - j],
                       DictGet(torque_data[t], ids[Len(ids) + 1 - j])>>]]]

\* data_by_driver[time_idx]: per driver, the dict id -> torque of its actuators
DataByDriver(torque_data, drivers, t) ==
  [d \in 1..Len(drivers) |->
     LET InRow(i) == i \in KeySet(torque_data[t])
         ids      == SelectSeq(drivers[d].ids, InRow)
     IN  [ch |-> drivers[d].ch,
          pos |-> [j \in 1..Len(ids) |-> <<ids[j], DictGet(torque_data[t], ids[j])>>]]]

\* replay lines 147-184: split by driver, missing check, start_time
ReplayPrepare ==
  /\ prog = "replay" /\ r_pc = "discover" /\ r_k > Len(Canint)
  /\ r_missing' = MissingInReplay(Actuators, r_drivers)
  /\ IF r_missing' # <<>>
     THEN r_pc' = "exit_missing" /\ UNCHANGED <<r_start_time, r_skipFirst, r_time_idx>>
     ELSE /\ r_pc' = "loop"
          /\ r_start_time' = now
          /\ r_skipFirst' = TRUE
          /\ r_time_idx' = 1
  /\ UNCHANGED <<envVars, parVars, dirVars, dumpVars, schedVars, r_kinfer, r_ids, r_rows,
                 r_torque_data, r_time_rel, r_k, r_drivers, r_wake,
                 r_connects, r_sent, now>>

SleepTime_FromPreviousStep(time_rel, time_idx, start_time, clock) ==
  time_rel[time_idx] - time_rel[time_idx - 1]

SleepTime_NoStart(time_rel, time_idx, start_time, clock) ==
  time_rel[time_idx] - clock

\* sleep_time = time_rel[time_idx] + start_time - time.time()
SleepTime(time_rel, time_idx, start_time, clock) ==
  time_rel[time_idx] + start_time - clock

ReplayBeginStep_StuckWhenLate ==
  /\ prog = "replay" /\ r_pc = "loop"
  /\ IF r_skipFirst
     THEN r_pc' = "dispatch" /\ UNCHANGED r_wake
     ELSE LET sleep_time == SleepTime(r_time_rel, r_time_idx, r_start_time, now)
          IN  IF sleep_time > 0
              THEN r_wake' = now + sleep_time /\ r_pc' = "sleeping"
              ELSE UNCHANGED <<r_pc, r_wake>>
  /\ UNCHANGED <<envVars, parVars, dirVars, dumpVars, schedVars, r_kinfer, r_ids, r_rows,
                 r_torque_data, r_time_rel, r_k, r_drivers, r_missing,
                 r_start_time, r_skipFirst, r_time_idx, r_connects, r_sent, now>>

ReplayBeginStep_NoAwaitWhenLate ==
  /\ prog = "replay" /\ r_pc = "loop"
  /\ IF r_skipFirst
     THEN r_pc' = "dispatch" /\ UNCHANGED r_wake
     ELSE LET sleep_time == SleepTime(r_time_rel, r_time_idx, r_start_time, now)
          IN  IF sleep_time > 0
              THEN r_wake' = now + sleep_time /\ r_pc' = "sleeping"
              ELSE r_pc' = "dispatch" /\ UNCHANGED r_wake
  /\ UNCHANGED <<envVars, parVars, dirVars, dumpVars, schedVars, r_kinfer, r_ids, r_rows,
                 r_torque_data, r_time_rel, r_k, r_drivers, r_missing,
                 r_start_time, r_skipFirst, r_time_idx, r_connects, r_sent, now>>

\* Top of one iteration of the main loop (lines 186-190): the first
\* iteration goes on without a wait, every other one awaits asyncio.sleep,
\* which returns at once for a delay <= 0.
ReplayBeginStep ==
  /\ prog = "replay" /\ r_pc = "loop"
  /\ IF r_skipFirst
     THEN r_pc' = "dispatch" /\ UNCHANGED r_wake
     ELSE LET sleep_time == SleepTime(r_time_rel, r_time_idx, r_start_time, now)
          IN  /\ r_wake' = now + (IF sleep_time > 0 THEN sleep_time ELSE 0)
              /\ r_pc' = "sleeping"
  /\ UNCHANGED <<envVars, parVars, dirVars, dumpVars, schedVars, r_kinfer, r_ids, r_rows,
                 r_torque_data, r_time_rel, r_k, r_drivers, r_missing,
                 r_start_time, r_skipFirst, r_time_idx, r_connects, r_sent, now>>

Suspended_AlsoBeforeSending == r_pc \in {"sleeping", "dispatch"}

\* The coroutine is suspended and the event loop runs: replay has one
\* await, asyncio.sleep at line 190; nothing between it and the end of the
\* sends of a step, or between the last step and the final zero commands,
\* yields control.
Suspended == r_pc = "sleeping"

\* asyncio.sleep returns once its delay has elapsed, unless the task was
\* cancelled in the meantime
ReplayWake ==
  /\ prog = "replay" /\ r_pc = "sleeping" /\ now >= r_wake /\ r_cancel = NoCancel
  /\ r_pc' = "dispatch"
  /\ UNCHANGED <<envVars, parVars, dirVars, dumpVars, schedVars, r_kinfer, r_ids, r_rows,
                 r_torque_data, r_time_rel, r_k, r_drivers, r_missing,
                 r_start_time, r_skipFirst, r_time_idx, r_wake, r_connects,
                 r_sent, now>>

\* run_replay's asyncio.run cancels the task on an interrupt, at any moment
\* of the main loop: the cancellation is pending until the task is or
\* becomes suspended.
ReplayCancelRequest ==
  /\ prog = "replay" /\ r_pc \in {"loop", "sleeping", "dispatch"}
  /\ r_cancel = NoCancel
  /\ r_cancel' = [pc |-> r_pc, sent |-> Len(r_sent)]
  /\ UNCHANGED <<envVars, parVars, dirVars, dumpVars, r_pc, r_kinfer, r_ids, r_rows,
                 r_torque_data, r_time_rel, r_k, r_drivers, r_missing,
                 r_start_time, r_skipFirst, r_time_idx, r_wake, r_connects,
                 r_sent, r_yields, now>>

\* Another task of the event loop runs, and may use the channel, while the
\* replay coroutine is suspended
OtherTask ==
  /\ prog = "replay" /\ Suspended
  /\ Len(r_sent) \notin r_yields
  /\ r_yields' = r_yields \cup {Len(r_sent)}
  /\ UNCHANGED <<envVars, parVars, dirVars, dumpVars, r_pc, r_kinfer, r_ids, r_rows,
                 r_torque_data, r_time_rel, r_k, r_drivers, r_missing,
                 r_start_time, r_skipFirst, r_time_idx, r_wake, r_connects,
                 r_sent, r_cancel, now>>

\* The pending cancellation is delivered to the suspended task:
\* CancelledError leaves replay at line 190, also when the delay of the
\* sleep is zero or negative.
ReplayCancel ==
  /\ prog = "replay" /\ Suspended /\ r_cancel # NoCancel
  /\ r_pc' = "cancelled"
  /\ UNCHANGED <<envVars, parVars, dirVars, dumpVars, schedVars, r_kinfer, r_ids, r_rows,
                 r_torque_data, r_time_rel, r_k, r_drivers, r_missing,
                 r_start_time, r_skipFirst, r_time_idx, r_wake, r_connects,
                 r_sent, now>>

Command(ch, id, torque, step) ==
  [ch |-> ch, id |-> id, position |-> 0, velocity |-> 0, torque |-> torque,
   kp |-> 0, kd |-> 0, step |-> step]

DriverCommands_SkipsFirst(entry, step, zero) ==
  [j \in 1..(Len(entry.pos) - 1) |->
     Command(entry.ch, entry.pos[j + 1][1], IF zero THEN 0 ELSE entry.pos[j + 1][2], step)]

\* The commands of one driver, in the order of its dict
DriverCommands(entry, step, zero) ==
  [j \in 1..Len(entry.pos) |->
     Command(entry.ch, entry.pos[j][1], IF zero THEN 0 ELSE entry.pos[j][2], step)]

RECURSIVE CommandsFrom(_, _, _, _)
CommandsFrom(time_step_data, step, zero, d) ==
  IF d > Len(time_step_data) THEN <<>>
  ELSE DriverCommands(time_step_data[d], step, zero)
         \o CommandsFrom(time_step_data, step, zero, d + 1)

\* Lines 196-207: the commands of step time_idx (step is its number)
StepCommands(time_step_data, step) == CommandsFrom(time_step_data, step, FALSE, 1)

SafetyStopCommands_KeepsTorque(first_step_data) ==
  CommandsFrom(first_step_data, 0, FALSE, 1)

\* Lines 212-221: zero torque, zero gains to every actuator of data_by_driver[0]
SafetyStopCommands(first_step_data) == CommandsFrom(first_step_data, 0, TRUE, 1)

ReplayDispatch_SkipsStep ==
  /\ prog = "replay" /\ r_pc = "dispatch"
  /\ r_skipFirst' = FALSE
  /\ r_sent' = r_sent \o StepCommands(DataByDriver(r_torque_data, r_drivers, r_time_idx),
                                      r_time_idx)
  /\ r_time_idx' = r_time_idx + 2
  /\ r_pc' = IF r_time_idx + 1 >= Len(r_time_rel) THEN "stop" ELSE "loop"
  /\ UNCHANGED <<envVars, parVars, dirVars, dumpVars, schedVars, r_kinfer, r_ids, r_rows,
                 r_torque_data, r_time_rel, r_k, r_drivers, r_missing,
                 r_start_time, r_wake, r_connects, now>>

\* Lines 192-211: send the commands of this step, go to the next iteration
ReplayDispatch ==
  /\ prog = "replay" /\ r_pc = "dispatch"
  /\ r_skipFirst' = FALSE
  /\ r_sent' = r_sent \o StepCommands(DataByDriver(r_torque_data, r_drivers, r_time_idx),
                                      r_time_idx)
  /\ r_time_idx' = r_time_idx + 1
  /\ r_pc' = IF r_time_idx = Len(r_time_rel) THEN "stop" ELSE "loop"
  /\ UNCHANGED <<envVars, parVars, dirVars, dumpVars, schedVars, r_kinfer, r_ids, r_rows,
                 r_torque_data, r_time_rel, r_k, r_drivers, r_missing,
                 r_start_time, r_wake, r_connects, now>>

\* Lines 212-221: the trailing loop after the last step
ReplaySafetyStop ==
  /\ prog = "replay" /\ r_pc = "stop"
  /\ r_sent' = r_sent \o SafetyStopCommands(DataByDriver(r_torque_data, r_drivers, 1))
  /\ r_pc' = "done"
  /\ UNCHANGED <<envVars, parVars, dirVars, dumpVars, schedVars, r_kinfer, r_ids, r_rows,
                 r_torque_data, r_time_rel, r_k, r_drivers, r_missing,
                 r_start_time, r_skipFirst, r_time_idx, r_wake, r_connects, now>>

\* driver.send_command raises: the commands before it were sent, the
\* exception leaves replay.
ReplaySendFails ==
  /\ prog = "replay" /\ r_pc \in {"dispatch", "stop"}
  /\ LET cmds == IF r_pc = "dispatch"
                 THEN StepCommands(DataByDriver(r_torque_data, r_drivers, r_time_idx),
                                   r_time_idx)
                 ELSE SafetyStopCommands(DataByDriver(r_torque_data, r_drivers, 1))
     IN  /\ cmds # <<>>
         /\ \E k \in {0, Len(cmds) - 1} : r_sent' = r_sent \o SubSeq(cmds, 1, k)
  /\ r_pc' = "crash_send"
  /\ UNCHANGED <<envVars, parVars, dirVars, dumpVars, schedVars, r_kinfer, r_ids, r_rows,
                 r_torque_data, r_time_rel, r_k, r_drivers, r_missing,
                 r_start_time, r_skipFirst, r_time_idx, r_wake, r_connects, now>>

\* The wall clock advances
Tick ==
  /\ prog = "replay"
  /\ \/ r_pc = "discover" /\ r_k > Len(Canint) /\ now < MaxClock
     \/ r_pc \in {"loop", "dispatch"} /\ now < MaxClock
     \/ r_pc = "sleeping" /\ (now < MaxClock \/ now < r_wake)
  /\ now' = now + 1
  /\ UNCHANGED <<envVars, parVars, dirVars, dumpVars, schedVars, r_pc, r_kinfer, r_ids, r_rows,
                 r_torque_data, r_time_rel, r_k, r_drivers, r_missing,
                 r_start_time, r_skipFirst, r_time_idx, r_wake, r_connects,
                 r_sent>>

\* ------------------------------------- parameter_map.py: servo type detection
\* Text is a sequence of character codes, a payload a sequence of bytes 0..255.
NUL   == 0            \* b'\x00', the separator of a String payload
Dot   == 46           \* '.'
Space == 32           \* ' '

Digits     == 48..57                  \* '0'..'9'
Whitespace == {9, 10, 11, 12, 13, Space}

IsDigits(s) == s # <<>> /\ \A k \in 1..Len(s) : s[k] \in Digits

\* int() of a text of decimal digits
RECURSIVE ToInt(_)
ToInt(s) == IF s = <<>> THEN 0 ELSE 10 * ToInt(SubSeq(s, 1, Len(s) - 1)) + (s[Len(s)] - 48)

\* str.strip(): drop leading and trailing whitespace
RECURSIVE Strip(_)
Strip(s) ==
  IF s = <<>> THEN s
  ELSE IF s[1] \in Whitespace THEN Strip(Tail(s))
  ELSE IF s[Len(s)] \in Whitespace THEN Strip(SubSeq(s, 1, Len(s) - 1))
  ELSE s

\* split(sep): the pieces between the separators, empty pieces included
RECURSIVE SplitFrom(_, _, _, _)
SplitFrom(s, sep, k, cur) ==
  IF k > Len(s) THEN <<cur>>
  ELSE IF s[k] = sep THEN <<cur>> \o SplitFrom(s, sep, k + 1, <<>>)
  ELSE SplitFrom(s, sep, k + 1, Append(cur, s[k]))

Split(s, sep) == SplitFrom(s, sep, 1, <<>>)

\* The pieces joined again with the separator between them
RECURSIVE Join(_, _)
Join(parts, sep) ==
  IF parts = <<>> THEN <<>>
  ELSE IF Len(parts) = 1 THEN parts[1]
  ELSE parts[1] \o <<sep>> \o Join(Tail(parts), sep)

ServoTypes == {"RS00", "RS02", "RS03", "RS04"}   \* list_all_servo_types()
None       == "None"                              \* Python None
ValueError == [raised |-> "ValueError", value |-> None]
Returned(v) == [raised |-> None, value |-> v]

version_map_NoRS04 ==
  (<<0, 0>> :> "RS00") @@ (<<0, 2>> :> "RS02") @@ (<<0, 3>> :> "RS03")

\* version_map of detect_servo_type_from_version
version_map ==
  (<<0, 0>> :> "RS00") @@ (<<0, 2>> :> "RS02") @@ (<<0, 3>> :> "RS03")
    @@ (<<0, 4>> :> "RS04")

detect_servo_type_from_version_Defaults(version_string) ==
  IF version_string = <<>> THEN ValueError
  ELSE LET parts == Split(Strip(version_string), Dot)
       IN  IF Len(parts) = 4 /\ \A k \in 1..4 : IsDigits(parts[k])
           THEN LET key == <<ToInt(parts[1]), ToInt(parts[2])>>
                IN  IF key \in DOMAIN version_map
                    THEN Returned(version_map[key]) ELSE Returned("RS00")
           ELSE ValueError

\* detect_servo_type_from_version: the pattern ^(\d+)\.(\d+)\.(\d+)\.(\d+)$
\* matches the stripped text exactly when it splits on '.' into four
\* non-empty runs of digits.
detect_servo_type_from_version(version_string) ==
  IF version_string = <<>> THEN ValueError
  ELSE LET parts == Split(Strip(version_string), Dot)
       IN  IF Len(parts) = 4 /\ \A k \in 1..4 : IsDigits(parts[k])
           THEN LET key == <<ToInt(parts[1]), ToInt(parts[2])>>
                IN  IF key \in DOMAIN version_map
                    THEN Returned(version_map[key]) ELSE ValueError
           ELSE ValueError

auto_detect_servo_type(app_version) == detect_servo_type_from_version(app_version)

\* bytes.decode('utf-8', errors='ignore') of bytes that are ASCII or 0xFF:
\* a byte that cannot start a UTF-8 sequence is dropped
Utf8Ignore(bytes) == LET Ascii(b) == b < 128 IN SelectSeq(bytes, Ascii)

\* [part for part in raw.split(b'\x00') if part]
NonEmptyParts(raw) == LET Full(p) == p # <<>> IN SelectSeq(Split(raw, NUL), Full)

AppCodeVersion == 4099     \* 0x1003
VersionPrefixes == {105, 115, 118, 116, 102}    \* 'isvtf'

\* cli.py detect_servo_type_from_parameters: None or a servo type
detect_servo_type_from_parameters(params) ==
  IF AppCodeVersion \notin DOMAIN params THEN None
  ELSE LET non_empty_parts == NonEmptyParts(params[AppCodeVersion])
       IN  IF Len(non_empty_parts) >= 2
           THEN LET second_part == Utf8Ignore(non_empty_parts[2])
                IN  IF Len(second_part) >= 2 /\ second_part[1] \in VersionPrefixes
                    THEN LET version_str == Tail(second_part)
                         IN  IF Len(version_str) >= 5 /\ version_str[1] \in Digits
                             THEN auto_detect_servo_type(version_str).value
                             ELSE None
                    ELSE None
           ELSE None

\* -------------------------------------------- parameter tables (samples)
\* The rows of the tables at the indices 0x0000, 0x2000, 0x200B, 0x200C,
\* 0x200D, 0x201E, 0x2025, 0x3008; 0xFFFF is in no table.
Desc(name, type, access) == [name |-> name, type |-> type, access |-> access]

SampleIndices == {0, 8192, 8203, 8204, 8205, 8222, 8229, 12296, 65535}

\* param_dump.py PARAM_DEFINITIONS, the one table of decode_parameter
PARAM_DEFINITIONS ==
  (0 :> Desc("Name", "String", "RW")) @@
  (8192 :> Desc("echoPara1", "uint16", "D")) @@
  (8203 :> Desc("CAN_MASTER", "uint8", "S")) @@
  (8204 :> Desc("CAN_TIMEOUT", "uint32", "RW")) @@
  (8205 :> Desc("status2_i16", "int16", "RW")) @@
  (8222 :> Desc("spd_step_value", "float", "RW")) @@
  (12296 :> Desc("adc1Offset", "int32", "R"))

RS00_PARAM_MAP ==
  (0 :> Desc("Name", "String", "RW")) @@
  (8192 :> Desc("echoPara1", "uint16", "D")) @@
  (8203 :> Desc("CAN_MASTER", "uint8", "RW")) @@
  (8204 :> Desc("CAN_TIMEOUT", "uint32", "RW")) @@
  (8205 :> Desc("status2", "int16", "RW")) @@
  (8222 :> Desc("spd_step_value", "float", "RW")) @@
  (12296 :> Desc("adc1Offset", "int32", "R"))

RS02_PARAM_MAP ==
  (0 :> Desc("Name", "String", "RW")) @@
  (8192 :> Desc("echoPara1", "uint16", "D")) @@
  (8203 :> Desc("CAN_MASTER", "uint8", "RW")) @@
  (8204 :> Desc("CAN_TIMEOUT", "uint32", "RW")) @@
  (8205 :> Desc("status2", "int16", "RW")) @@
  (8222 :> Desc("zero_sta", "uint8", "RW")) @@
  (12296 :> Desc("adc1Offset", "int32", "R"))

RS03_PARAM_MAP ==
  (0 :> Desc("Name", "String", "RW")) @@
  (8192 :> Desc("echoPara1", "uint16", "D")) @@
  (8203 :> Desc("CAN_TIMEOUT", "uint32", "RW")) @@
  (8204 :> Desc("status2", "int16", "S")) @@
  (8205 :> Desc("status3", "uint32", "S")) @@
  (8222 :> Desc("fault4", "uint32", "S")) @@
  (8229 :> Desc("protocol_1", "uint8", "RW")) @@
  (12296 :> Desc("adc1Offset", "int32", "R"))

RS04_PARAM_MAP ==
  (0 :> Desc("Name", "String", "RW")) @@
  (8192 :> Desc("echoPara1", "uint16", "D")) @@
  (8203 :> Desc("CAN_TIMEOUT", "uint32", "RW")) @@
  (8204 :> Desc("status2", "int16", "S")) @@
  (8205 :> Desc("status3", "uint32", "S")) @@
  (8222 :> Desc("fault2", "uint32", "S")) @@
  (8229 :> Desc("zero_sta", "uint8", "RW")) @@
  (12296 :> Desc("adc1Offset", "int32", "R"))

\* The module-level tables of parameter_map.py as the module is loaded
LoadedMaps ==
  [v \in ServoTypes |-> CASE v = "RS00" -> RS00_PARAM_MAP
                          [] v = "RS02" -> RS02_PARAM_MAP
                          [] v = "RS03" -> RS03_PARAM_MAP
                          [] v = "RS04" -> RS04_PARAM_MAP]

get_parameter_map_Merges(maps, servo_type) ==
  IF servo_type \notin ServoTypes \/ DOMAIN maps[servo_type] = {}
  THEN [raised |-> "ValueError", value |-> <<>>, maps |-> maps]
  ELSE LET merged == maps[servo_type] @@ maps["RS04"]
       IN  [raised |-> None, value |-> merged,
            maps |-> [maps EXCEPT !["RS00"] = merged]]

\* parameter_map.py get_parameter_map: the table object itself is returned;
\* maps is the module state before the call and after it
get_parameter_map(maps, servo_type) ==
  IF servo_type \notin ServoTypes \/ DOMAIN maps[servo_type] = {}
  THEN [raised |-> "ValueError", value |-> <<>>, maps |-> maps]
  ELSE [raised |-> None, value |-> maps[servo_type], maps |-> maps]

\* ------------------------------------ parameter tables: the value bounds
\* The min_value and max_value of every descriptor of the four tables that
\* has one (all of them are whole numbers), with the descriptor's data_type
Bounded(data_type, min_val, max_val) ==
  [data_type |-> data_type, min_val |-> min_val, max_val |-> max_val]

\* RS00_PARAM_MAP, indices 0x2000 to 0x2024
RS00_BOUNDS ==
  (8192 :> Bounded("uint16", 5, 110)) @@
  (8193 :> Bounded("uint16", 5, 110)) @@
  (8194 :> Bounded("uint16", 5, 110)) @@
  (8195 :> Bounded("uint16", 5, 110)) @@
  (8196 :> Bounded("uint32", 1, 10000)) @@
  (8197 :> Bounded("float", -7, 7)) @@
  (8198 :> Bounded("float", -50, 50)) @@
  (8199 :> Bounded("float", 0, 14)) @@
  (8200 :> Bounded("float", 0, 33)) @@
  (8201 :> Bounded("uint8", 1, 4)) @@
  (8202 :> Bounded("uint8", 0, 127)) @@
  (8203 :> Bounded("uint8", 0, 300)) @@
  (8204 :> Bounded("uint32", -2000, 2000000)) @@
  (8205 :> Bounded("int16", 0, 1800)) @@
  (8206 :> Bounded("uint32", 1000, 1000000)) @@
  (8207 :> Bounded("float", 1, 64)) @@
  (8208 :> Bounded("uint8", 0, 1)) @@
  (8209 :> Bounded("float", 0, 1)) @@
  (8210 :> Bounded("float", 0, 200)) @@
  (8211 :> Bounded("float", 0, 200)) @@
  (8212 :> Bounded("float", 0, 200)) @@
  (8213 :> Bounded("float", 0, 200)) @@
  (8214 :> Bounded("float", 0, 200)) @@
  (8215 :> Bounded("float", 0, 1)) @@
  (8216 :> Bounded("float", 0, 200)) @@
  (8217 :> Bounded("float", 0, 27)) @@
  (8218 :> Bounded("float", 0, 100)) @@
  (8219 :> Bounded("float", 0, 100)) @@
  (8220 :> Bounded("float", 0, 27)) @@
  (8221 :> Bounded("float", 0, 27)) @@
  (8222 :> Bounded("float", 0, 150)) @@
  (8223 :> Bounded("float", 0, 20)) @@
  (8224 :> Bounded("float", 0, 1000)) @@
  (8225 :> Bounded("uint8", 0, 100)) @@
  (8226 :> Bounded("uint8", 0, 20)) @@
  (8227 :> Bounded("uint8", 0, 20)) @@
  (8228 :> Bounded("float", -7, 7))

\* RS02_PARAM_MAP, indices 0x2000 to 0x2021
RS02_BOUNDS ==
  (8192 :> Bounded("uint16", 5, 107)) @@
  (8193 :> Bounded("uint16", 5, 107)) @@
  (8194 :> Bounded("uint16", 5, 107)) @@
  (8195 :> Bounded("uint16", 5, 107)) @@
  (8196 :> Bounded("uint32", 1, 10000)) @@
  (8197 :> Bounded("float", -10, 10)) @@
  (8198 :> Bounded("float", -10, 10)) @@
  (8199 :> Bounded("float", 0, 30)) @@
  (8200 :> Bounded("float", 0, 33)) @@
  (8201 :> Bounded("uint8", 1, 4)) @@
  (8202 :> Bounded("uint8", 0, 127)) @@
  (8203 :> Bounded("uint8", 0, 300)) @@
  (8204 :> Bounded("uint32", -2000000, 2000000)) @@
  (8205 :> Bounded("int16", 0, 1800)) @@
  (8206 :> Bounded("uint32", 1000, 1000000)) @@
  (8207 :> Bounded("float", 1, 64)) @@
  (8208 :> Bounded("uint8", 0, 1)) @@
  (8209 :> Bounded("float", 0, 1)) @@
  (8210 :> Bounded("float", 0, 200)) @@
  (8211 :> Bounded("float", 0, 200)) @@
  (8212 :> Bounded("float", 0, 200)) @@
  (8213 :> Bounded("float", 0, 200)) @@
  (8214 :> Bounded("float", 0, 200)) @@
  (8215 :> Bounded("float", 0, 1)) @@
  (8216 :> Bounded("float", 0, 200)) @@
  (8217 :> Bounded("float", 0, 27)) @@
  (8218 :> Bounded("float", 0, 100)) @@
  (8219 :> Bounded("float", 0, 100)) @@
  (8220 :> Bounded("float", 0, 27)) @@
  (8221 :> Bounded("float", -100, 100)) @@
  (8222 :> Bounded("uint8", 0, 100)) @@
  (8223 :> Bounded("uint8", 0, 20)) @@
  (8224 :> Bounded("uint8", 0, 20)) @@
  (8225 :> Bounded("float", -7, 7))

\* RS03_PARAM_MAP, indices 0x2000 to 0x2027
RS03_BOUNDS ==
  (8192 :> Bounded("uint16", 5, 106)) @@
  (8193 :> Bounded("uint16", 5, 106)) @@
  (8194 :> Bounded("uint16", 5, 106)) @@
  (8195 :> Bounded("uint16", 5, 106)) @@
  (8196 :> Bounded("uint32", 1, 10000)) @@
  (8197 :> Bounded("float", -50, 50)) @@
  (8198 :> Bounded("float", -50, 50)) @@
  (8199 :> Bounded("float", -10, 10)) @@
  (8200 :> Bounded("float", 0, 33)) @@
  (8201 :> Bounded("uint8", 0, 127)) @@
  (8202 :> Bounded("uint8", 0, 300)) @@
  (8203 :> Bounded("uint32", -100000, 100000)) @@
  (8204 :> Bounded("int16", -200, 1500)) @@
  (8205 :> Bounded("uint32", 1000, 1000000)) @@
  (8206 :> Bounded("float", 1, 64)) @@
  (8207 :> Bounded("float", -20, 20)) @@
  (8208 :> Bounded("uint8", 0, 127)) @@
  (8209 :> Bounded("float", -1, 1)) @@
  (8210 :> Bounded("float", -200, 200)) @@
  (8211 :> Bounded("float", -200, 200)) @@
  (8212 :> Bounded("float", -200, 200)) @@
  (8213 :> Bounded("float", -200, 200)) @@
  (8214 :> Bounded("float", -200, 200)) @@
  (8215 :> Bounded("float", -1, 1)) @@
  (8216 :> Bounded("float", 0, 200)) @@
  (8217 :> Bounded("float", 0, 150)) @@
  (8218 :> Bounded("float", -1, 150)) @@
  (8219 :> Bounded("uint32", 0, 30000)) @@
  (8220 :> Bounded("uint32", 0, 30000)) @@
  (8221 :> Bounded("uint32", 0, 30000)) @@
  (8222 :> Bounded("uint32", 0, 30000)) @@
  (8223 :> Bounded("uint32", 0, 30000)) @@
  (8224 :> Bounded("uint32", 0, 30000)) @@
  (8225 :> Bounded("uint32", 0, 30000)) @@
  (8226 :> Bounded("uint8", -10, 10)) @@
  (8227 :> Bounded("uint8", 0, 100)) @@
  (8228 :> Bounded("float", 0, 27)) @@
  (8229 :> Bounded("uint8", 0, 20)) @@
  (8230 :> Bounded("uint8", 0, 20)) @@
  (8231 :> Bounded("float", -7, 7))

\* RS04_PARAM_MAP, indices 0x2000 to 0x2029
RS04_BOUNDS ==
  (8192 :> Bounded("uint16", 5, 106)) @@
  (8193 :> Bounded("uint16", 5, 106)) @@
  (8194 :> Bounded("uint16", 5, 106)) @@
  (8195 :> Bounded("uint16", 5, 106)) @@
  (8196 :> Bounded("uint32", 1, 10000)) @@
  (8197 :> Bounded("float", -50, 50)) @@
  (8198 :> Bounded("float", -50, 50)) @@
  (8199 :> Bounded("float", -10, 10)) @@
  (8200 :> Bounded("float", 0, 33)) @@
  (8201 :> Bounded("uint8", 0, 127)) @@
  (8202 :> Bounded("uint8", 0, 300)) @@
  (8203 :> Bounded("uint32", -10000, 100000)) @@
  (8204 :> Bounded("int16", -200, 1500)) @@
  (8205 :> Bounded("uint32", 1000, 1000000)) @@
  (8206 :> Bounded("float", 1, 64)) @@
  (8207 :> Bounded("float", 0, 20)) @@
  (8208 :> Bounded("uint8", 0, 1)) @@
  (8209 :> Bounded("float", 0, 1)) @@
  (8210 :> Bounded("float", 0, 200)) @@
  (8211 :> Bounded("float", 0, 200)) @@
  (8212 :> Bounded("float", 0, 200)) @@
  (8213 :> Bounded("float", 0, 200)) @@
  (8214 :> Bounded("float", 0, 200)) @@
  (8215 :> Bounded("float", 0, 1)) @@
  (8216 :> Bounded("float", 0, 200)) @@
  (8217 :> Bounded("float", 0, 150)) @@
  (8218 :> Bounded("float", 0, 150)) @@
  (8219 :> Bounded("float", 0, 20)) @@
  (8220 :> Bounded("float", 0, 1000)) @@
  (8221 :> Bounded("uint32", 0, 30000)) @@
  (8222 :> Bounded("uint32", 0, 30000)) @@
  (8223 :> Bounded("uint32", 0, 30000)) @@
  (8224 :> Bounded("uint32", 0, 30000)) @@
  (8225 :> Bounded("uint32", 0, 30000)) @@
  (8226 :> Bounded("uint32", 0, 30000)) @@
  (8227 :> Bounded("uint32", 0, 30000)) @@
  (8228 :> Bounded("uint8", 0, 10)) @@
  (8229 :> Bounded("uint8", 0, 100)) @@
  (8230 :> Bounded("float", 0, 27)) @@
  (8231 :> Bounded("uint8", 0, 20)) @@
  (8232 :> Bounded("uint8", 0, 20)) @@
  (8233 :> Bounded("float", -7, 7))

LoadedBounds ==
  [v \in ServoTypes |-> CASE v = "RS00" -> RS00_BOUNDS
                          [] v = "RS02" -> RS02_BOUNDS
                          [] v = "RS03" -> RS03_BOUNDS
                          [] v = "RS04" -> RS04_BOUNDS]

\* parameter_map.py get_parameter_limits: index -> (min_value, max_value) of
\* the descriptors of the variant's table that have a bound; the ValueError
\* of get_parameter_map goes through
get_parameter_limits(bounds, servo_type) ==
  IF servo_type \notin ServoTypes \/ DOMAIN bounds[servo_type] = {}
  THEN [raised |-> "ValueError", value |-> <<>>]
  ELSE [raised |-> None,
        value  |-> [idx \in DOMAIN bounds[servo_type] |->
                      <<bounds[servo_type][idx].min_val, bounds[servo_type][idx].max_val>>]]

\* ---------------------------------------- param_dump.py decode_parameter
\* The text decode_parameter returns: "Raw: <hex of val>", the text val,
\* str() of the integer val[1] * 65536 + val[2], the float printed with six
\* decimals (val = <<sign, round(|x| * 10^6)>>), "inf" / "-inf", or "nan".
Raw(raw_bytes)      == [kind |-> "raw", val |-> raw_bytes]
Text(s)             == [kind |-> "text", val |-> s]
IntText(v)          == [kind |-> "int", val |-> v]
Fixed6(sign, micro) == [kind |-> "fixed6", val |-> <<sign, micro>>]
InfText(sign)       == [kind |-> "inf", val |-> <<sign>>]
NanText             == [kind |-> "nan", val |-> <<>>]
EmptyText           == Text(<<40, 101, 109, 112, 116, 121, 41>>)   \* "(empty)"
NoText              == [kind |-> "none", val |-> <<>>]   \* nothing was returned

TagAlphabet == {116, 101, 109, 105, 111, 115, 102, 98, 118, 100, 110, 108,
                114, 99, 112, 117, 103, 104}      \* 'temiosfbvdnlrcpugh'

\* char.isprintable() and ord(char) >= 32, for ASCII text
Printable(c) == 32 <= c /\ c <= 126

\* str.lower(), for ASCII text
Lower(s) == [k \in 1..Len(s) |-> IF 65 <= s[k] /\ s[k] <= 90 THEN s[k] + 32 ELSE s[k]]

\* The character codes of a descriptor name
NameText(name) ==
  CASE name = "Name" -> <<78, 97, 109, 101>>
    [] OTHER -> <<>>

\* The loop that collects clean_value: the longest printable prefix
RECURSIVE CleanValue(_)
CleanValue(value_part) ==
  IF value_part = <<>> \/ ~Printable(value_part[1]) THEN <<>>
  ELSE <<value_part[1]>> \o CleanValue(Tail(value_part))

\* raw_bytes[lo:hi] of Python (0-based, hi exclusive, cut at the end)
Slice(raw_bytes, lo, hi) ==
  SubSeq(raw_bytes, lo + 1, IF hi <= Len(raw_bytes) THEN hi ELSE Len(raw_bytes))

Pow2(n) == 2 ^ n

\* n / d rounded to the nearest integer, ties to even
RoundHalfEven(n, d) ==
  LET q == n \div d
      r == n % d
  IN  IF 2 * r < d THEN q
      ELSE IF 2 * r > d THEN q + 1
      ELSE IF q % 2 = 0 THEN q ELSE q + 1

UnpackInt_Unsigned(b, width, signed) ==
  LET At(k) == IF k <= width THEN b[k] ELSE 0
  IN  <<At(3) + 256 * At(4), At(1) + 256 * At(2)>>

\* struct.unpack('<B' | '<H' | '<L' | '<h' | '<l', b): the little-endian
\* integer as <<hi, lo>>, its value being hi * 65536 + lo with 0 <= lo < 65536
UnpackInt(b, width, signed) ==
  LET At(k) == IF k <= width THEN b[k] ELSE 0
      lo    == At(1) + 256 * At(2)
      hi    == At(3) + 256 * At(4)
  IN  IF ~signed THEN <<hi, lo>>
      ELSE IF width = 2 THEN (IF lo >= 32768 THEN <<-1, lo>> ELSE <<0, lo>>)
      ELSE (IF hi >= 32768 THEN <<hi - 65536, lo>> ELSE <<hi, lo>>)

\* f"{struct.unpack('<f', b)[0]:.6f}": exact for the floats below 2^-21
\* (they print as 0.000000) and for those of exponent 106..137 whose
\* mantissa has only its top three bits set, the sample floats of this model
FormatFloat(b) ==
  LET sign == b[4] \div 128
      e    == (b[4] % 128) * 2 + (b[3] \div 128)
      mant == (b[3] % 128) * 65536 + b[2] * 256 + b[1]
      M    == 8 + (mant \div 1048576)
      k    == e - 130
  IN  IF e = 255 THEN (IF mant = 0 THEN InfText(sign) ELSE NanText)
      ELSE IF e <= 105 THEN Fixed6(sign, 0)
      ELSE IF k >= -6 THEN Fixed6(sign, 15625 * M * Pow2(k + 6))
      ELSE Fixed6(sign, RoundHalfEven(15625 * M, Pow2(-k - 6)))

\* The width in bytes of a numeric type
Width(param_type) ==
  CASE param_type = "uint8" -> 1
    [] param_type \in {"uint16", "int16"} -> 2
    [] OTHER -> 4

\* The byte offset of the "offset" layout and the payload length from
\* which decode_parameter uses it: uint8 reads raw_bytes[18] when
\* len(raw_bytes) > 18, the 2-byte types read [18:20] when len >= 20, the
\* 4-byte types read [26:30] when len >= 30.
OffsetOf_ByteAtZero(param_type) == IF Width(param_type) = 1 THEN 0
                                   ELSE IF Width(param_type) = 2 THEN 18 ELSE 26

OffsetOf(param_type) == IF Width(param_type) = 4 THEN 26 ELSE 18

\* The value text of a numeric type read from the bytes b
NumberText(param_type, b) ==
  IF param_type = "float" THEN FormatFloat(b)
  ELSE IntText(UnpackInt(b, Width(param_type), param_type \in {"int16", "int32"}))

\* The numeric branches of decode_parameter; struct.error on a short
\* payload is caught by the bare except
DecodeNumeric(param_type, raw_bytes) ==
  LET w   == Width(param_type)
      off == OffsetOf(param_type)
  IN  IF Len(raw_bytes) >= off + w
      THEN NumberText(param_type, Slice(raw_bytes, off, off + w))
      ELSE IF Len(raw_bytes) >= w
      THEN NumberText(param_type, Slice(raw_bytes, 0, w))
      ELSE Raw(raw_bytes)

DecodeString_SecondOnly(name, raw_bytes) ==
  LET non_empty_parts == NonEmptyParts(raw_bytes)
  IN  IF Len(non_empty_parts) >= 2
      THEN LET second_part == Utf8Ignore(non_empty_parts[2])
           IN  IF Len(second_part) >= 2 /\ second_part[1] \in TagAlphabet
               THEN LET clean_value == CleanValue(Tail(second_part))
                    IN  Text(IF clean_value # <<>> THEN clean_value ELSE Tail(second_part))
               ELSE Text(second_part)
      ELSE IF Len(non_empty_parts) = 1
      THEN LET single_part == Utf8Ignore(non_empty_parts[1])
           IN  IF Lower(single_part) = Lower(NameText(name)) THEN EmptyText
               ELSE Text(single_part)
      ELSE EmptyText

\* The String branch of decode_parameter
DecodeString(name, raw_bytes) ==
  LET non_empty_parts == NonEmptyParts(raw_bytes)
  IN  IF Len(non_empty_parts) >= 2
      THEN LET second_part == Utf8Ignore(non_empty_parts[2])
               last_part   == Utf8Ignore(non_empty_parts[Len(non_empty_parts)])
           IN  IF Len(second_part) >= 2 /\ second_part[1] \in TagAlphabet
               THEN LET clean_value == CleanValue(Tail(second_part))
                    IN  Text(IF clean_value # <<>> THEN clean_value ELSE Tail(second_part))
               ELSE IF Len(last_part) > 1 /\ last_part[1] \in TagAlphabet
               THEN Text(Tail(last_part))
               ELSE Text(last_part)
      ELSE IF Len(non_empty_parts) = 1
      THEN LET single_part == Utf8Ignore(non_empty_parts[1])
           IN  IF Lower(single_part) = Lower(NameText(name)) THEN EmptyText
               ELSE Text(single_part)
      ELSE EmptyText

NumericTypes == {"uint8", "uint16", "uint32", "int16", "int32", "float"}

\* The try block of decode_parameter for a descriptor of this name and type
DecodeAs(name, param_type, raw_bytes) ==
  IF param_type = "String" THEN DecodeString(name, raw_bytes)
  ELSE IF param_type \in NumericTypes THEN DecodeNumeric(param_type, raw_bytes)
  ELSE Raw(raw_bytes)

\* param_dump.py decode_parameter(param_index, raw_bytes)
decode_parameter(param_index, raw_bytes) ==
  IF param_index \notin DOMAIN PARAM_DEFINITIONS THEN Raw(raw_bytes)
  ELSE DecodeAs(PARAM_DEFINITIONS[param_index].name,
                PARAM_DEFINITIONS[param_index].type, raw_bytes)

\* A Python call of decode_parameter with the positional arguments args:
\* the function takes two, any other number raises TypeError
CallDecodeParameter(args) ==
  IF Len(args) = 2 THEN [raised |-> None, value |-> decode_parameter(args[1], args[2])]
  ELSE [raised |-> "TypeError", value |-> NoText]

\* raw_bytes.hex().upper(), the display of a payload that is not decoded
HexText(raw_bytes) == [kind |-> "hex", val |-> raw_bytes]

\* cli.py display_parameters_table for one actuator and one parameter it
\* returned: the cell of the table, or the exception that leaves the command
display_parameters_table(maps, servo_type, param_index, raw_bytes) ==
  LET param_map == IF servo_type # None THEN get_parameter_map(maps, servo_type).value
                   ELSE <<>>
      shown     == servo_type = None \/ param_index \in DOMAIN param_map
  IN  IF ~shown THEN [raised |-> None, value |-> NoText]
      ELSE IF servo_type # None
      THEN CallDecodeParameter(<<param_index, raw_bytes, servo_type>>)
      ELSE [raised |-> None, value |-> HexText(raw_bytes)]

\* cli.py display_parameters_json for one actuator and one parameter: the
\* 'value' of the entry, or the raw_hex of the fallback entry; the bare
\* except swallows whatever the try block raises
display_parameters_json(maps, servo_type, param_index, raw_bytes) ==
  IF servo_type # None
  THEN LET m == get_parameter_map(maps, servo_type)
       IN  IF m.raised = None /\ param_index \in DOMAIN m.value
           THEN LET decoded == CallDecodeParameter(<<param_index, raw_bytes, servo_type>>)
                IN  IF decoded.raised = None
                    THEN [raised |-> None, value |-> decoded.value]
                    ELSE [raised |-> None, value |-> HexText(raw_bytes)]
           ELSE [raised |-> None, value |-> HexText(raw_bytes)]
  ELSE [raised |-> None, value |-> HexText(raw_bytes)]

\* cli.py dump lines 376-404: the servo type recorded for each actuator that
\* returned parameters. Detection runs only when all parameters are dumped;
\* with --param nothing is detected and servo_types stays empty.
dump_servo_types(actuators, param_given) ==
  [a \in 1..Len(actuators) |->
     IF param_given THEN None ELSE detect_servo_type_from_parameters(actuators[a])]

\* display_parameters_table lines 663-698, without --filter: the rows of
\* the table
target_params(maps, actuators, servo_types) ==
  UNION {IF servo_types[a] # None
         THEN {idx \in DOMAIN actuators[a] : idx \in DOMAIN maps[servo_types[a]]}
         ELSE DOMAIN actuators[a] : a \in 1..Len(actuators)}

\* What the dump command shows of an actuator: nothing
NothingShown(actuators) == [a \in 1..Len(actuators) |-> <<>>]

\* cli.py dump lines 419-426 with the display functions: what is printed
\* for each actuator (per parameter index, the value shown), or the
\* exception that leaves the command. The table is printed by one tabulate
\* call at its end, so an exception leaves nothing printed; the import of
\* line 669 names two things parameter_map.py does not define.
dump_display(maps, output_format, actuators, servo_types) ==
  LET typed  == {a \in 1..Len(actuators) : servo_types[a] # None}
      rows   == target_params(maps, actuators, servo_types)
      AllHex == [a \in 1..Len(actuators) |->
                   [idx \in DOMAIN actuators[a] |-> HexText(actuators[a][idx])]]
  IN  IF output_format = "raw" THEN [raised |-> None, value |-> AllHex]
      ELSE IF output_format = "json"
      THEN [raised |-> None,
            value |-> [a \in 1..Len(actuators) |->
                         [idx \in DOMAIN actuators[a] |->
                            display_parameters_json(maps, servo_types[a], idx,
                                                    actuators[a][idx]).value]]]
      ELSE IF typed = {} THEN [raised |-> None, value |-> NothingShown(actuators)]
      ELSE IF Cardinality({servo_types[a] : a \in typed}) > 1
      THEN [raised |-> "ImportError", value |-> NothingShown(actuators)]
      ELSE IF \E a \in typed : DOMAIN actuators[a] \cap rows # {}
      THEN [raised |-> "TypeError", value |-> NothingShown(actuators)]
      ELSE [raised |-> None,
            value |-> [a \in 1..Len(actuators) |->
                         [idx \in DOMAIN actuators[a] \cap rows |->
                            HexText(actuators[a][idx])]]]

\* ------------------------------------------------ sample inputs, actions
\* Version texts: up to MaxComps components joined by '.', the first two
\* drawn from heads, the others from tails
HeadComponents ==
  {<<48>>, <<50>>, <<51>>, <<52>>, <<53>>,      \* "0" "2" "3" "4" "5"
   <<>>, <<120>>, <<48, 50>>, <<32, 48>>}       \* "" "x" "02" " 0"

TailComponents ==
  {<<>>, <<48>>, <<51, 57>>, <<120>>, <<57, 32>>}   \* "" "0" "39" "x" "9 "

ComponentsOf(n, tails) ==
  IF n <= 2 THEN [1..n -> HeadComponents]
  ELSE {[k \in 1..n |-> IF k <= 2 THEN h[k] ELSE t[k - 2]] :
          h \in [1..2 -> HeadComponents], t \in [1..(n - 2) -> tails]}

VersionStrings ==
  {Join(c, Dot) : c \in UNION {ComponentsOf(n, TailComponents) : n \in 0..MaxComps}}

\* The payloads of parameter 0x1003: a name, NUL, a prefix character, a
\* four-part version text, NUL
FirmwareVersions == {Join(c, Dot) : c \in ComponentsOf(4, {<<48>>, <<120>>})}

VersionPayloads ==
  {n \o <<NUL>> \o t \o v \o <<NUL>> :
     n \in {<<>>, <<65>>}, t \in {<<>>, <<118>>, <<101>>}, v \in FirmwareVersions}

ParamsDicts == {<<>>} \cup {(AppCodeVersion :> p) : p \in VersionPayloads}

\* Four-byte words, least significant byte first: integers of every sign
\* and size, and floats that FormatFloat prints exactly
SampleWords ==
  {<<0, 0, 0, 0>>, <<1, 0, 0, 0>>, <<255, 255, 255, 255>>, <<52, 18, 0, 128>>,
   <<255, 127, 0, 0>>, <<0, 128, 255, 255>>, <<255, 255, 255, 127>>,
   <<0, 0, 128, 63>>,      \* 1.0
   <<0, 0, 192, 63>>,      \* 1.5
   <<0, 0, 128, 191>>,     \* -1.0
   <<0, 0, 0, 47>>,        \* 2^-33
   <<0, 0, 16, 47>>}       \* 1.125 * 2^-33

\* A payload of n bytes that carries the word at the byte offset off (as far
\* as it fits) and the byte fill everywhere else
Layout(n, off, word, fill) ==
  [k \in 1..n |-> IF off < k /\ k <= off + 4 THEN word[k - off] ELSE fill]

NumericPayloads ==
  {Layout(n, off, w, f) : n \in 0..MaxPayloadLen, off \in {0, 18, 26},
                          w \in SampleWords, f \in {0, 255}}

SampleSegments ==
  {<<78, 97, 109, 101>>, <<78, 65, 77, 69>>,     \* "Name" "NAME"
   <<118, 65>>, <<118>>, <<120, 57>>,            \* "vA" "v" "x9"
   <<118, 65, 1, 66>>, <<118, 1>>, <<255>>}      \* "vA\x01B" "v\x01" b"\xff"

StringPayloads ==
  {pad \o Join(q, NUL) \o pad :
     pad \in {<<>>, <<NUL>>}, q \in UNION {[1..n -> SampleSegments] : n \in 0..MaxSegs}}

\* The payloads an index is decoded from: every payload, but for a float
\* index only the numeric ones, whose floats FormatFloat prints exactly
PayloadsFor(i) ==
  IF i \in DOMAIN PARAM_DEFINITIONS /\ PARAM_DEFINITIONS[i].type = "float"
  THEN NumericPayloads
  ELSE NumericPayloads \cup StringPayloads

CliPayloads ==
  {Layout(n, off, w, 255) : n \in {2, MaxPayloadLen}, off \in {18, 26}, w \in SampleWords}

\* The parameters an actuator returns to the dump command: its firmware
\* version 0.0.0.0 (RS00), 0.3.0.0 (RS03), 0.5.0.0 (no such pair) or
\* x.0.0.0 (not a version), as the payload of parameter 0x1003
DumpedVersions ==
  {<<48, Dot, 48, Dot, 48, Dot, 48>>, <<48, Dot, 51, Dot, 48, Dot, 48>>,
   <<48, Dot, 53, Dot, 48, Dot, 48>>, <<120, Dot, 48, Dot, 48, Dot, 48>>}

DumpedParams ==
  {(AppCodeVersion :> (<<65, NUL, 118>> \o v \o <<NUL>>)) : v \in DumpedVersions}

OutputFormats == {"table", "json", "raw"}

ParamsIdle ==
  t_op = "idle" /\ t_in = <<>> /\ t_out = <<>> /\ p_maps = LoadedMaps

\* detect_servo_type_from_version applied to a version text
DetectVersion ==
  /\ prog = "params" /\ t_op = "start"
  /\ \E s \in VersionStrings :
       /\ t_in' = [version_string |-> s]
       /\ t_out' = detect_servo_type_from_version(s)
  /\ t_op' = "detect"
  /\ UNCHANGED <<envVars, dirVars, dumpVars, rpVars, p_maps>>

\* cli.py dump: the servo type of an actuator from the parameters it returned
DetectFromParameters ==
  /\ prog = "params" /\ t_op = "start"
  /\ \E params \in ParamsDicts :
       /\ t_in' = [params |-> params]
       /\ t_out' = [raised |-> None, value |-> detect_servo_type_from_parameters(params)]
  /\ t_op' = "detect_params"
  /\ UNCHANGED <<envVars, dirVars, dumpVars, rpVars, p_maps>>

\* decode_parameter applied to an index and a payload (param_dump.py:393)
Decode ==
  /\ prog = "params" /\ t_op = "start"
  /\ \E i \in SampleIndices : \E raw \in PayloadsFor(i) :
       /\ t_in' = [param_index |-> i, raw_bytes |-> raw]
       /\ t_out' = CallDecodeParameter(<<i, raw>>)
  /\ t_op' = "decode"
  /\ UNCHANGED <<envVars, dirVars, dumpVars, rpVars, p_maps>>

\* cli.py dump --format table: one cell of display_parameters_table
DisplayTable ==
  /\ prog = "params" /\ t_op = "start"
  /\ \E v \in ServoTypes \cup {None} : \E i \in SampleIndices : \E raw \in CliPayloads :
       /\ t_in' = [servo_type |-> v, param_index |-> i, raw_bytes |-> raw]
       /\ t_out' = display_parameters_table(p_maps, v, i, raw)
       /\ p_maps' = IF v # None THEN get_parameter_map(p_maps, v).maps ELSE p_maps
  /\ t_op' = "table"
  /\ UNCHANGED <<envVars, dirVars, dumpVars, rpVars>>

\* cli.py dump --format json: one entry of display_parameters_json
DisplayJson ==
  /\ prog = "params" /\ t_op = "start"
  /\ \E v \in ServoTypes \cup {None} : \E i \in SampleIndices : \E raw \in CliPayloads :
       /\ t_in' = [servo_type |-> v, param_index |-> i, raw_bytes |-> raw]
       /\ t_out' = display_parameters_json(p_maps, v, i, raw)
       /\ p_maps' = IF v # None THEN get_parameter_map(p_maps, v).maps ELSE p_maps
  /\ t_op' = "json"
  /\ UNCHANGED <<envVars, dirVars, dumpVars, rpVars>>

\* cli.py dump: the display of the parameters that up to MaxActuators
\* actuators returned
DumpDisplay ==
  /\ prog = "params" /\ t_op = "start"
  /\ \E fmt \in OutputFormats : \E given \in BOOLEAN :
     \E acts \in UNION {[1..n -> DumpedParams] : n \in 1..MaxActuators} :
       /\ t_in' = [output_format |-> fmt, param_given |-> given, actuators |-> acts]
       /\ t_out' = dump_display(p_maps, fmt, acts, dump_servo_types(acts, given))
  /\ t_op' = "dump"
  /\ UNCHANGED <<envVars, dirVars, dumpVars, rpVars, p_maps>>

\* get_parameter_map called for a servo type, at any time and any number
\* of times
GetParameterMap ==
  /\ prog = "params" /\ t_op # "idle"
  /\ \E v \in ServoTypes \cup {"RS01"} :
       LET r == get_parameter_map(p_maps, v)
       IN  /\ t_in' = [servo_type |-> v]
           /\ t_out' = [raised |-> r.raised, value |-> r.value]
           /\ p_maps' = r.maps
  /\ t_op' = "map"
  /\ UNCHANGED <<envVars, dirVars, dumpVars, rpVars>>

\* get_parameter_limits applied to the name of a variant
GetParameterLimits ==
  /\ prog = "params" /\ t_op = "start"
  /\ \E v \in ServoTypes \cup {"RS01"} :
       /\ t_in' = [servo_type |-> v]
       /\ t_out' = get_parameter_limits(LoadedBounds, v)
  /\ t_op' = "limits"
  /\ UNCHANGED <<envVars, dirVars, dumpVars, rpVars, p_maps>>

\* ------------------------------------------------------- specification
DirIdle  == discovered = [i \in DirIds |-> NoChannel] /\ lastCall = NoCall /\ c_exit = -1

InitDir ==
  /\ prog = "cli"
  /\ present \in [Channels -> Placements(NumIds)]
  /\ link \in [Channels -> Outcome]
  /\ interfaces = DefaultInterfaces
  /\ mute = {}
  /\ DirIdle
  /\ DumpIdle
  /\ ReplayIdle
  /\ ParamsIdle

Discover ==
  /\ prog = "cli" /\ c_exit = -1
  /\ \E id \in DirIds : get_actuator_driver(id)

ScanCmd ==
  /\ prog = "cli" /\ c_exit = -1
  /\ \E lo \in DirIds : \E hi \in DirIds :
       /\ lo <= hi
       /\ scan(lo, hi)

\* A command of cli.py (state, enable, disable, zero, move, scan, ...)
\* returns after its calls of the directory: the command functions return
\* None and call sys.exit nowhere on this path, so click ends the process
\* with status 0.
CommandEnd ==
  /\ prog = "cli" /\ c_exit = -1 /\ lastCall.op # "none"
  /\ c_exit' = 0
  /\ UNCHANGED <<envVars, parVars, dumpVars, rpVars, discovered, lastCall>>

InitDump ==
  /\ prog = "param_dump"
  /\ present \in [Channels -> Placements(MaxPerChan)]
  /\ link \in [Channels -> Outcome]
  /\ interfaces = DefaultInterfaces
  /\ mute \in {{}, DumpIds}
  /\ DirIdle
  /\ d_pc = "scan" /\ d_k = 1
  /\ d_targets \in {[j \in 1..n |-> j] : n \in 1..MaxTargets}
  /\ d_locations = [i \in DumpIds |-> NoChannel]
  /\ d_params = {} /\ d_log = <<>> /\ d_missing = {} /\ d_rc = -1
  /\ ReplayIdle
  /\ ParamsIdle

\* The rows of the log: row r carries the time times[r] and, for every joint,
\* the torque r; the row number short (0: none) lacks its last joint.
Rows(times, njoints, short) ==
  [r \in 1..Len(times) |->
     [t_us |-> times[r] * POSIX_SCALE,
      joint_torques |-> [j \in 1..(IF r = short THEN njoints - 1 ELSE njoints) |-> r]]]

\* The times of the rows of a log, in seconds: the first row at second 1,
\* every later row up to one second before it or up to MaxT seconds after
LogTimes ==
  {<<>>} \cup
  UNION {{[k \in 1..n |-> IF k = 1 THEN 1 ELSE 1 + rel[k - 1]] :
            rel \in [1..(n - 1) -> -1..MaxT]} : n \in 1..MaxSteps}

InitReplay ==
  /\ prog = "replay"
  \* on can0: every motor, every motor but one motor of a joint, or none
  /\ present \in {[ch \in Channels |-> IF ch = Can0 THEN S ELSE {}] :
                    S \in {{}} \cup {Motors \ M : M \in {{}} \cup {{2 * j - 1} : j \in 1..MaxJoints}}}
  /\ link \in {[ch \in Channels |-> IF ch = Can0 THEN o ELSE "ok"] : o \in Outcome}
  /\ interfaces = Canint
  /\ mute = {}
  /\ DirIdle
  /\ DumpIdle
  /\ r_pc = "start"
  \* joint j of the metadata is driven by motor 2j-1; --ids is absent or
  \* names the motors of the first n joints, last one first
  /\ r_kinfer = [j \in 1..MaxJoints |-> 2 * j - 1]
  /\ r_ids \in {NoIds} \cup {[given |-> TRUE, list |-> [j \in 1..n |-> 2 * (n + 1 - j) - 1]] :
                             n \in 0..MaxJoints}
  /\ \E times \in LogTimes : \E short \in {0, Len(times)} :
       r_rows = Rows(times, Len(r_kinfer), short)
  /\ r_torque_data = <<>> /\ r_time_rel = <<>> /\ r_k = 0
  /\ r_drivers = <<>> /\ r_missing = <<>> /\ r_start_time = 0
  /\ r_skipFirst = TRUE /\ r_time_idx = 0 /\ r_wake = 0 /\ r_connects = <<>>
  /\ r_sent = <<>> /\ now = 0
  /\ r_yields = {} /\ r_cancel = NoCancel
  /\ ParamsIdle

\* The parameter tools: version detection, decoding and the parameter maps
InitParams ==
  /\ prog = "params"
  /\ present = [ch \in Channels |-> {}]
  /\ link = [ch \in Channels |-> "ok"]
  /\ interfaces = DefaultInterfaces
  /\ mute = {}
  /\ DirIdle
  /\ DumpIdle
  /\ ReplayIdle
  /\ t_op = "start" /\ t_in = <<>> /\ t_out = <<>>
  /\ p_maps = LoadedMaps

Init == InitDir \/ InitDump \/ InitReplay \/ InitParams

Next ==
  \/ Discover \/ ScanCmd \/ CommandEnd
  \/ DumpInterface \/ DumpFinish
  \/ ReplayLoad \/ ReplayInterface \/ ReplayPrepare \/ ReplayBeginStep
  \/ ReplayWake \/ ReplayCancelRequest \/ OtherTask \/ ReplayCancel
  \/ ReplayDispatch \/ ReplaySafetyStop
  \/ ReplaySendFails \/ Tick
  \/ DetectVersion \/ DetectFromParameters \/ Decode \/ DisplayTable
  \/ DisplayJson \/ GetParameterMap \/ DumpDisplay \/ GetParameterLimits

Spec == Init /\ [][Next]_vars

\* The runs of replay in which can0 opens and every motor answers its scan
InitReplayFound ==
  /\ InitReplay
  /\ link[Can0] = "ok"
  /\ present[Can0] = Motors

\* One run of replay (run_replay, lines 231-232): replay creates no other
\* task, so that the event loop runs the replay coroutine alone
NextReplay ==
  \/ ReplayLoad \/ ReplayInterface \/ ReplayPrepare \/ ReplayBeginStep
  \/ ReplayWake \/ ReplayCancelRequest \/ ReplayCancel
  \/ ReplayDispatch \/ ReplaySafetyStop
  \/ ReplaySendFails \/ Tick

\* The event loop of asyncio.run keeps running the replay coroutine while it
\* can run, and the wall clock keeps advancing. An interrupt and a failing
\* send may happen but need not: they are not fair.
FairReplay ==
  /\ InitReplayFound /\ [][NextReplay]_vars
  /\ WF_vars(ReplayLoad) /\ WF_vars(ReplayInterface) /\ WF_vars(ReplayPrepare)
  /\ WF_vars(ReplayBeginStep) /\ WF_vars(ReplayWake)
  /\ WF_vars(ReplayDispatch) /\ WF_vars(ReplaySafetyStop)
  /\ WF_vars(Tick)
\* ------------------------------------------------------------ properties
\* C1: once an id is bound to a channel in the device directory, no later
\* discovery of that id changes the channel it is bound to.
C1_BindingNeverChanges ==
  [][\A i \in DirIds : discovered[i] # NoChannel => discovered'[i] = discovered[i]]_vars

\* C2: a discover call for an id that is already in the directory returns
\* the cached record and issues no connect and no scan.
C2_RepeatedDiscoverUsesCache ==
  (lastCall.op = "discover" /\ lastCall.cachedBefore # NoChannel)
    => (lastCall.result = lastCall.cachedBefore /\ lastCall.attempts = <<>>)

\* The attempt k of the last call is a scan that reported the id looked for
Hit(k) ==
  /\ lastCall.attempts[k].status = "ok"
  /\ lastCall.id \in lastCall.attempts[k].ids

\* C3: discover queries the channels in the given order, each with a scan
\* of the range [id, id]; it returns the first channel whose scan reports
\* the id and queries no channel after it; it returns NotFound only when no
\* channel reports the id.
C3_DiscoverFirstHitInOrder ==
  lastCall.op = "discover" =>
    LET a == lastCall.attempts
        n == Len(a)
    IN  /\ n <= Len(interfaces)
        /\ \A k \in 1..n :
             /\ a[k].ch = interfaces[k]
             /\ a[k].lo = lastCall.id /\ a[k].hi = lastCall.id
             /\ a[k].status = "ok" =>
                  a[k].ids = present[a[k].ch] \cap {lastCall.id}
             /\ k < n => ~Hit(k)
        /\ lastCall.result # NoChannel =>
             n >= 1 /\ Hit(n) /\ lastCall.result = a[n].ch
        /\ lastCall.result = NoChannel =>
             n = Len(interfaces) /\ \A k \in 1..n : ~Hit(k)

\* C3 witness: the id is absent from the first channel and found on the second
C3_FoundOnLaterChannel ==
  /\ lastCall.op = "discover"
  /\ Len(lastCall.attempts) = 2
  /\ lastCall.attempts[1].status = "ok"
  /\ lastCall.id \notin present[interfaces[1]]
  /\ lastCall.result = interfaces[2]
  /\ interfaces[2] # interfaces[1]
\* In discover, scan and the parameter dump every interface of the list is
\* tried in order, whether or not an earlier one failed; discover alone
\* stops early, and only at the interface that reported the id.
AllInterfacesTried ==
  /\ lastCall.op = "discover" =>
       /\ \/ Len(lastCall.attempts) = Len(interfaces)
          \/ Len(lastCall.attempts) >= 1 /\ Hit(Len(lastCall.attempts))
       /\ \A k \in 1..Len(lastCall.attempts) : lastCall.attempts[k].ch = interfaces[k]
  /\ lastCall.op = "scan" =>
       /\ Len(lastCall.attempts) = Len(interfaces)
       /\ \A k \in 1..Len(interfaces) : lastCall.attempts[k].ch = interfaces[k]
  /\ d_pc = "done" =>
       /\ Len(d_log) = Len(interfaces)
       /\ \A k \in 1..Len(interfaces) : d_log[k].ch = interfaces[k]

\* The interface replay connected last failed to open or to scan
ReplayChannelFailed ==
  /\ r_connects # <<>>
  /\ r_connects[Len(r_connects)].status \in {"open_fail", "scan_fail"}

\* C4 (as stated): in discover, scan, the parameter dump and replay, a
\* channel that fails to open or raises during its scan is skipped and the
\* remaining channels are still tried; a channel failure never aborts the
\* operation.
C4_ChannelFailureSkipped ==
  /\ AllInterfacesTried
  /\ ReplayChannelFailed => r_pc \notin {"crash_connect", "exit_scan"}

\* C4 (amended): in discover, scan and the parameter dump a failing channel
\* is skipped and the remaining channels are still tried; in replay, which
\* looks its devices up on can0 alone, a failure of that channel ends
\* replay before any command is sent.
C4_ChannelFailureHandled ==
  /\ AllInterfacesTried
  /\ ReplayChannelFailed =>
       /\ r_pc \in {"crash_connect", "exit_scan"}
       /\ r_sent = <<>>

\* C4 witness: the dump's first interface raised during its scan and the
\* second one was scanned and delivered devices
C4_DumpScansAfterFailure ==
  /\ d_pc = "done" /\ Len(d_log) = 2
  /\ d_log[1].status = "scan_fail" /\ d_log[1].scans # <<>>
  /\ d_log[2].status = "ok" /\ d_log[2].found # {}

\* C5: a bulk scan requested for more than 10 ids issues exactly one range
\* scan on every channel it opens, whatever was found on earlier channels.
C5_BulkOneRangeScanPerChannel ==
  Len(d_targets) > BulkThreshold =>
    \A k \in 1..Len(d_log) :
      d_log[k].status # "open_fail" => Len(d_log[k].scans) = 1

\* The ids the dump found on some channel
DumpFound == UNION {d_log[k].found : k \in 1..Len(d_log)}

\* The ids replay found on some channel
ReplayFound == UNION {Range(r_drivers[d].ids) : d \in 1..Len(r_drivers)}

\* Replay is past its missing check (line 170)
ReplayChecked ==
  r_pc \in {"exit_missing", "loop", "sleeping", "dispatch", "stop", "done",
            "cancelled", "crash_send"}

\* C6 (as stated): the missing set is the requested ids minus the found
\* ids and a missing id is never fatal, in the dump and in replay.
C6_MissingNeverFatal ==
  /\ d_pc = "done" =>
       /\ d_missing = Range(d_targets) \ DumpFound
       /\ d_params # {} => d_rc = 0
  /\ ReplayChecked => Range(r_missing) = Range(Actuators) \ ReplayFound
  /\ r_pc # "exit_missing"

\* C6 (amended): the missing set is the requested ids minus the found ids;
\* in the dump it is not fatal, the dump goes on with the ids found; in
\* replay a non-empty missing list ends replay before any command is sent.
C6_MissingCollected ==
  /\ d_pc = "done" =>
       /\ d_missing = Range(d_targets) \ DumpFound
       /\ d_params = DumpFound \ mute
       /\ d_params # {} => d_rc = 0
  /\ ReplayChecked =>
       /\ Range(r_missing) = Range(Actuators) \ ReplayFound
       /\ r_missing # <<>> <=> r_pc = "exit_missing"
  /\ r_pc = "exit_missing" => r_sent = <<>>

\* C6 witness: a dump that ends with ids missing and ids shown
C6_DumpContinuesWithMissing ==
  d_pc = "done" /\ d_missing # {} /\ d_params # {} /\ d_rc = 0

\* The device ids that appear in any step of the trajectory
TrajectoryDevices ==
  UNION {KeySet(r_torque_data[t]) : t \in 1..Len(r_torque_data)}

\* The last command sent to the device is a zero-torque, zero-gain command
\* of the trailing loop, sent after every step command.
StoppedLast(id) ==
  \E k \in 1..Len(r_sent) :
    /\ r_sent[k].id = id /\ r_sent[k].step = 0
    /\ r_sent[k].torque = 0 /\ r_sent[k].kp = 0 /\ r_sent[k].kd = 0
    /\ \A j \in 1..Len(r_sent) :
         /\ (j > k => r_sent[j].id # id)
         /\ (r_sent[j].step > 0 => j < k)

\* C7: when replay completes normally, every device of the trajectory got
\* a zero-torque, zero-gain command after the last step, as its last command.
C7_SafetyStopAfterLastStep ==
  r_pc = "done" => \A id \in TrajectoryDevices : StoppedLast(id)

\* C7 witness: a completed replay of two steps to two devices
C7_CompletedTwoSteps ==
  /\ r_pc = "done" /\ Len(r_time_rel) >= 2 /\ Cardinality(TrajectoryDevices) >= 2
  /\ \E k \in 1..Len(r_sent) : r_sent[k].step = 2 /\ r_sent[k].torque # 0

\* C8: when replay is cancelled during an inter-step wait, the safety stop
\* is sent to every device of the trajectory before replay ends.
C8_CancelSendsSafetyStop ==
  r_pc = "cancelled" => \A id \in TrajectoryDevices : StoppedLast(id)

\* The timestamps of the rows never decrease
NonDecreasing(rows) ==
  \A r \in 1..Len(rows) : r > 1 => rows[r - 1].t_us <= rows[r].t_us

\* C10: when the timestamps of the trajectory are not non-decreasing, no
\* command is ever sent.
C10_NonMonotonicSendsNothing ==
  ~NonDecreasing(r_rows) => r_sent = <<>>

\* The step that the k-th command belongs to when n steps are sent in order,
\* each to d devices, and the trailing stop (step 0) follows them
StepOfCommand(k, n, d) == IF k <= n * d THEN ((k - 1) \div d) + 1 ELSE 0

\* The commands sent are those of the steps 1..n in this order, each step
\* once to every device, followed by the stop commands when stopped is TRUE
SentInOrder(n, stopped) ==
  LET d == Cardinality(TrajectoryDevices)
  IN  /\ Len(r_sent) = (IF stopped THEN n + 1 ELSE n) * d
      /\ \A k \in 1..Len(r_sent) : r_sent[k].step = StepOfCommand(k, n, d)
      /\ \A k \in 1..Len(r_sent) : \A j \in 1..Len(r_sent) :
           (r_sent[k].step = r_sent[j].step /\ r_sent[k].id = r_sent[j].id) => k = j

\* C11: replay dispatches the steps in trajectory order, each exactly once,
\* none skipped or repeated: while it runs the steps before time_idx have
\* been sent, at the end all n steps and the stop have been sent, and once
\* replay has completed no step sends a further command.
C11_StepsInOrderOnce ==
  /\ r_pc \in {"loop", "sleeping", "dispatch", "cancelled"} => SentInOrder(r_time_idx - 1, FALSE)
  /\ r_pc = "stop" => SentInOrder(Len(r_time_rel), FALSE)
  /\ r_pc = "done" => SentInOrder(Len(r_time_rel), TRUE) /\ ~ENABLED <<Next>>_r_sent

\* C11 witness: every step of a trajectory of at least two steps for two
\* devices has been dispatched and replay has completed
C11_AllStepsDispatched ==
  /\ r_pc = "done" /\ Len(r_time_rel) >= 2 /\ Cardinality(TrajectoryDevices) >= 2
  /\ \A t \in 1..Len(r_time_rel) : \E k \in 1..Len(r_sent) : r_sent[k].step = t

\* C12: step 0 is dispatched without a wait; a later step i is dispatched
\* no earlier than start_time + time_rel[i], and its wait ends no later than
\* that time or, when that time has passed already, at once.
C12_StepNotBeforeItsTime ==
  /\ r_pc = "sleeping" => r_time_idx > 1
  /\ (r_pc = "dispatch" /\ r_time_idx > 1)
       => now >= r_start_time + r_time_rel[r_time_idx]
  /\ (r_pc = "sleeping" /\ now < r_wake)
       => r_wake = r_start_time + r_time_rel[r_time_idx]

\* C12 witness: step 1 is about to be dispatched exactly at its time, after a
\* real wait, in a replay that started after time 0
C12_DispatchedAtItsTime ==
  /\ r_pc = "dispatch" /\ r_time_idx = 2
  /\ r_start_time > 0 /\ r_time_rel[2] > 0
  /\ now = r_start_time + r_time_rel[2]

\* The text is exactly four dot-separated non-negative decimal integers
ExactlyFourIntegers(s) ==
  LET parts == Split(s, Dot)
  IN  Len(parts) = 4 /\ \A k \in 1..4 : IsDigits(parts[k])

Major(s) == ToInt(Split(s, Dot)[1])
Minor(s) == ToInt(Split(s, Dot)[2])

\* The servo type of firmware 0.minor.x.x
TypeOfMinor(minor) ==
  CASE minor = 0 -> "RS00" [] minor = 2 -> "RS02"
    [] minor = 3 -> "RS03" [] minor = 4 -> "RS04"

KnownPair(s) == Major(s) = 0 /\ Minor(s) \in {0, 2, 3, 4}

\* C13: a version text of exactly four dot-separated non-negative integers
\* whose (major, minor) is (0,0), (0,2), (0,3) or (0,4) is detected as RS00,
\* RS02, RS03, RS04, whatever its patch and build are.
C13_KnownPairsDetected ==
  (t_op = "detect" /\ ExactlyFourIntegers(t_in.version_string)
     /\ KnownPair(t_in.version_string))
    => t_out = Returned(TypeOfMinor(Minor(t_in.version_string)))

\* C13 witness: a version 0.4.x.y with a two-digit patch was detected as RS04
C13_DetectedRS04 ==
  /\ t_op = "detect" /\ t_out = Returned("RS04")
  /\ ExactlyFourIntegers(t_in.version_string)
  /\ Len(Split(t_in.version_string, Dot)[3]) = 2

\* The version text that the CLI detection reads out of the parameters: the
\* second non-empty segment of parameter 0x1003 without its first character
CarriedVersion(params) ==
  IF AppCodeVersion \in DOMAIN params /\ Len(NonEmptyParts(params[AppCodeVersion])) >= 2
  THEN Tail(Utf8Ignore(NonEmptyParts(params[AppCodeVersion])[2]))
  ELSE <<>>

\* C14 as stated: every text that is not exactly four dot-separated
\* non-negative integers with a known (major, minor) gives the error and no
\* servo type, and the CLI detection returns no servo type for it either.
C14_EveryDeviationRejected ==
  /\ (t_op = "detect" /\ ~(ExactlyFourIntegers(t_in.version_string)
                             /\ KnownPair(t_in.version_string)))
       => t_out = ValueError
  /\ (t_op = "detect_params" /\ ~(ExactlyFourIntegers(CarriedVersion(t_in.params))
                                    /\ KnownPair(CarriedVersion(t_in.params))))
       => t_out.value = None

\* C14 amended: the same for every text that, once leading and trailing
\* whitespace is removed, is not exactly four dot-separated non-negative
\* integers with a known (major, minor).
C14_DeviationRejectedAfterStrip ==
  /\ (t_op = "detect" /\ ~(ExactlyFourIntegers(Strip(t_in.version_string))
                             /\ KnownPair(Strip(t_in.version_string))))
       => t_out = ValueError
  /\ (t_op = "detect_params" /\ ~(ExactlyFourIntegers(Strip(CarriedVersion(t_in.params)))
                                    /\ KnownPair(Strip(CarriedVersion(t_in.params)))))
       => t_out.value = None

\* C14 witness: a well-formed version with the unmapped pair (0,5) was rejected
C14_UnmappedPairRejected ==
  /\ t_op = "detect" /\ t_out = ValueError
  /\ ExactlyFourIntegers(t_in.version_string)
  /\ Major(t_in.version_string) = 0 /\ Minor(t_in.version_string) = 5

\* C15: no call of decode_parameter raises to its caller. The call of the
\* parameter dump, the cell of the CLI table and the entry of the CLI JSON
\* all come back with a value, for known and unknown indices and for every
\* payload, and the dump's value is the raw fallback when the index is
\* unknown.
C15_DecodeNeverRaises ==
  /\ t_op \in {"decode", "table", "json"} => t_out.raised = None
  /\ (t_op = "decode" /\ t_in.param_index \notin DOMAIN PARAM_DEFINITIONS)
       => t_out.value = Raw(t_in.raw_bytes)

\* The type that decode_parameter looks up for a known index
TypeOfIndex(param_index) == PARAM_DEFINITIONS[param_index].type

\* The call decoded a numeric parameter from a payload of at least n bytes
DecodedNumeric(n) ==
  /\ t_op = "decode" /\ t_in.param_index \in DOMAIN PARAM_DEFINITIONS
  /\ TypeOfIndex(t_in.param_index) \in NumericTypes
  /\ Len(t_in.raw_bytes) >= n

\* The value of the type's width that the payload carries at a byte offset
ValueAt(param_type, raw_bytes, off) ==
  NumberText(param_type, SubSeq(raw_bytes, off + 1, off + Width(param_type)))

\* C16 as stated: a numeric parameter of width w is read at byte offset 0
\* (w = 1), 18 (w = 2) or 26 (w = 4) when the payload has offset + w bytes,
\* and from the first w bytes otherwise.
C16_OffsetsZero18And26 ==
  DecodedNumeric(0) =>
    LET ty  == TypeOfIndex(t_in.param_index)
        w   == Width(ty)
        off == CASE w = 1 -> 0 [] w = 2 -> 18 [] w = 4 -> 26
        raw == t_in.raw_bytes
    IN  /\ Len(raw) >= off + w => t_out.value = ValueAt(ty, raw, off)
        /\ (Len(raw) < off + w /\ Len(raw) >= w) => t_out.value = ValueAt(ty, raw, 0)

\* C16 amended: the offset is 18 for w = 1 and w = 2 and 26 for w = 4; a
\* payload of fewer than offset + w bytes is read from its first w bytes,
\* and one of fewer than w bytes gives the raw fallback.
C16_Offsets18And26 ==
  DecodedNumeric(0) =>
    LET ty  == TypeOfIndex(t_in.param_index)
        w   == Width(ty)
        off == CASE w = 1 -> 18 [] w = 2 -> 18 [] w = 4 -> 26
        raw == t_in.raw_bytes
    IN  /\ Len(raw) >= off + w => t_out.value = ValueAt(ty, raw, off)
        /\ (Len(raw) < off + w /\ Len(raw) >= w) => t_out.value = ValueAt(ty, raw, 0)
        /\ Len(raw) < w => t_out.value = Raw(raw)

\* C16 witness: a uint8 was read from byte 18 of a payload whose first byte
\* holds another value
C16_Uint8ReadAtByte18 ==
  /\ DecodedNumeric(19) /\ TypeOfIndex(t_in.param_index) = "uint8"
  /\ t_in.raw_bytes[19] # t_in.raw_bytes[1]
  /\ t_out.value = IntText(<<0, t_in.raw_bytes[19]>>)

IntegerTypes == {"uint8", "uint16", "uint32", "int16", "int32"}

\* The integer <<hi, lo>> (hi * 65536 + lo) is representable in the type
Representable(param_type, v) ==
  /\ 0 <= v[2] /\ v[2] < 65536
  /\ CASE param_type = "uint8"  -> v[1] = 0 /\ v[2] < 256
       [] param_type = "uint16" -> v[1] = 0
       [] param_type = "uint32" -> 0 <= v[1] /\ v[1] < 65536
       [] param_type = "int16"  -> \/ v[1] = 0 /\ v[2] < 32768
                                   \/ v[1] = -1 /\ v[2] >= 32768
       [] param_type = "int32"  -> -32768 <= v[1] /\ v[1] < 32768

\* The little-endian encoding of the integer <<hi, lo>> in w bytes, two's
\* complement when it is negative: what struct.pack gives for the format
\* that the decoder unpacks
EncodeLE(v, w) ==
  LET h     == (v[1] + 65536) % 65536
      bytes == <<v[2] % 256, v[2] \div 256, h % 256, h \div 256>>
  IN  SubSeq(bytes, 1, w)

\* Floats whose value is a whole number of millionths, or below half a
\* millionth, with their text to six decimals
FloatVectors ==
  {<<<<0, 0, 128, 63>>, Fixed6(0, 1000000)>>,      \*  1.0   "1.000000"
   <<<<0, 0, 192, 63>>, Fixed6(0, 1500000)>>,      \*  1.5   "1.500000"
   <<<<0, 0, 128, 191>>, Fixed6(1, 1000000)>>,     \* -1.0  "-1.000000"
   <<<<0, 0, 0, 0>>, Fixed6(0, 0)>>,               \*  0.0   "0.000000"
   <<<<0, 0, 0, 47>>, Fixed6(0, 0)>>,              \*  2^-33 "0.000000"
   <<<<0, 0, 16, 47>>, Fixed6(0, 0)>>}             \*  1.125 * 2^-33

\* The integer that the call returned encodes to the bytes b and is
\* representable in the type: b decodes to the value it encodes
RecoversInteger(param_type, b) ==
  /\ t_out.value.kind = "int"
  /\ Representable(param_type, t_out.value.val)
  /\ EncodeLE(t_out.value.val, Width(param_type)) = b

\* C17 as stated: a payload that carries the little-endian encoding of a
\* value at the offset-layout position of its type (byte 0, 18 or 26 for
\* width 1, 2 or 4) decodes to exactly that value: the integer returned
\* encodes to the bytes carried, and the text returned for a float belongs
\* to no other float.
C17_RoundTripExact ==
  DecodedNumeric(0) =>
    LET ty  == TypeOfIndex(t_in.param_index)
        w   == Width(ty)
        off == CASE w = 1 -> 0 [] w = 2 -> 18 [] w = 4 -> 26
        b   == SubSeq(t_in.raw_bytes, off + 1, off + w)
    IN  Len(t_in.raw_bytes) >= off + w =>
          IF ty \in IntegerTypes THEN RecoversInteger(ty, b)
          ELSE \A f \in SampleWords : FormatFloat(f) = t_out.value => f = b

\* C17 amended: the position is byte 18 for width 1 and 2 and byte 26 for
\* width 4; an integer is recovered exactly, a float as its decimal text
\* rounded to six digits after the point.
C17_IntegersExactFloatsSixDecimals ==
  DecodedNumeric(0) =>
    LET ty  == TypeOfIndex(t_in.param_index)
        w   == Width(ty)
        off == CASE w = 1 -> 18 [] w = 2 -> 18 [] w = 4 -> 26
        b   == SubSeq(t_in.raw_bytes, off + 1, off + w)
    IN  Len(t_in.raw_bytes) >= off + w =>
          IF ty \in IntegerTypes THEN RecoversInteger(ty, b)
          ELSE \A fv \in FloatVectors : fv[1] = b => t_out.value = fv[2]

\* C17 witness: a negative int16 was recovered from the two bytes at offset 18
C17_NegativeInt16Recovered ==
  /\ DecodedNumeric(20) /\ TypeOfIndex(t_in.param_index) = "int16"
  /\ t_out.value.kind = "int" /\ t_out.value.val[1] = -1
  /\ EncodeLE(t_out.value.val, 2) = SubSeq(t_in.raw_bytes, 19, 20)

\* The call decoded a String parameter
DecodedString ==
  /\ t_op = "decode" /\ t_in.param_index \in DOMAIN PARAM_DEFINITIONS
  /\ TypeOfIndex(t_in.param_index) = "String"

\* The segments of the payload between NUL bytes, empty ones dropped, as text
Segments(raw_bytes) ==
  [k \in 1..Len(NonEmptyParts(raw_bytes)) |-> Utf8Ignore(NonEmptyParts(raw_bytes)[k])]

\* A segment without its leading character when that is a tag
Untagged(segment) ==
  IF segment # <<>> /\ segment[1] \in TagAlphabet THEN Tail(segment) ELSE segment

\* The longest printable prefix of a text, or the text when that is empty
PrintablePrefixOr(remainder) ==
  IF CleanValue(remainder) # <<>> THEN CleanValue(remainder) ELSE remainder

\* The value of one segment, or of none
OneOrNoSegment(segs, name) ==
  /\ (Len(segs) = 1 /\ Lower(segs[1]) # Lower(NameText(name))) => t_out.value = Text(segs[1])
  /\ (Len(segs) = 1 /\ Lower(segs[1]) = Lower(NameText(name))) => t_out.value = EmptyText
  /\ Len(segs) = 0 => t_out.value = EmptyText

\* C18 as stated: with two or more segments the value always comes from the
\* second one, its tag stripped and cut to its printable prefix; one segment
\* is the value unless it is the descriptor's name; none gives empty.
C18_AlwaysSecondSegment ==
  DecodedString =>
    LET segs == Segments(t_in.raw_bytes)
        name == PARAM_DEFINITIONS[t_in.param_index].name
    IN  /\ Len(segs) >= 2 => t_out.value = Text(PrintablePrefixOr(Untagged(segs[2])))
        /\ OneOrNoSegment(segs, name)

\* C18 amended: the second segment gives the value when it has a tag and at
\* least one more character; otherwise the last segment gives it, whole but
\* for a leading tag that is followed by at least one character.
C18_SecondSegmentOrLast ==
  DecodedString =>
    LET segs   == Segments(t_in.raw_bytes)
        name   == PARAM_DEFINITIONS[t_in.param_index].name
        tagged == Len(segs) >= 2 /\ Len(segs[2]) >= 2 /\ segs[2][1] \in TagAlphabet
        last   == segs[Len(segs)]
    IN  /\ tagged => t_out.value = Text(PrintablePrefixOr(Tail(segs[2])))
        /\ (Len(segs) >= 2 /\ ~tagged) =>
             t_out.value = Text(IF Len(last) >= 2 THEN Untagged(last) ELSE last)
        /\ OneOrNoSegment(segs, name)

\* C18 witness: three segments, the second without a tag, and the value was
\* taken from the third
C18_ValueFromLastSegment ==
  /\ DecodedString
  /\ Len(Segments(t_in.raw_bytes)) = 3
  /\ Segments(t_in.raw_bytes)[2] = <<120, 57>>
  /\ Segments(t_in.raw_bytes)[3] = <<118, 65>>
  /\ t_out.value = Text(<<65>>)

\* C19: every call of get_parameter_map for a servo type returns the table
\* of that type with the indices and descriptors it had when the module was
\* loaded, and the tables of all types stay what they were, whichever calls
\* and displays came before.
C19_MapsBuiltAlike ==
  /\ p_maps = LoadedMaps
  /\ (t_op = "map" /\ t_in.servo_type \in ServoTypes)
       => t_out = [raised |-> None, value |-> LoadedMaps[t_in.servo_type]]

\* C19 witness: the table of RS03 was returned, with the index 0x2025 that
\* RS00 lacks, and the table of RS00 still lacks it
C19_RS03MapReturned ==
  /\ t_op = "map" /\ t_in.servo_type = "RS03"
  /\ 8229 \in DOMAIN t_out.value
  /\ 8229 \notin DOMAIN p_maps["RS00"]

\* What decoding the payload with the descriptor that the servo type's
\* table gives the index returns
DecodedByMap(servo_type, param_index, raw_bytes) ==
  DecodeAs(LoadedMaps[servo_type][param_index].name,
           LoadedMaps[servo_type][param_index].type, raw_bytes)

\* C20: the value read at an index from a device of a servo type is decoded
\* with the type that the table of that servo type gives the index: in the
\* CLI displays, which know the servo type, and in the parameter dump,
\* whatever the servo type of the device it reads is.
C20_DecodedWithVariantType ==
  /\ (t_op \in {"table", "json"} /\ t_in.servo_type # None
        /\ t_in.param_index \in DOMAIN LoadedMaps[t_in.servo_type])
       => t_out = [raised |-> None,
                   value |-> DecodedByMap(t_in.servo_type, t_in.param_index, t_in.raw_bytes)]
  /\ t_op = "decode" =>
       \A v \in ServoTypes :
         t_in.param_index \in DOMAIN LoadedMaps[v]
           => t_out.value = DecodedByMap(v, t_in.param_index, t_in.raw_bytes)

\* C21: an actuator whose firmware version is not parsed or not mapped has
\* no servo type, and every parameter it returned is still shown, as raw
\* hex, in the table, the json and the raw format of the dump command.
C21_UnknownVariantShownRaw ==
  (t_op = "dump" /\ ~t_in.param_given) =>
    /\ t_out.raised = None
    /\ \A a \in 1..Len(t_in.actuators) :
         detect_servo_type_from_parameters(t_in.actuators[a]) = None =>
           \A idx \in DOMAIN t_in.actuators[a] :
             /\ idx \in DOMAIN t_out.value[a]
             /\ t_out.value[a][idx] = HexText(t_in.actuators[a][idx])

\* C22: a command of cli.py ends with status 0 when a device was reached
\* in its process and with another status when none was, and the parameter
\* dump returns 0 when it read a device and another value when it read none.
C22_ExitCodeTellsReach ==
  /\ c_exit # -1 => (c_exit = 0 <=> \E i \in DirIds : discovered[i] # NoChannel)
  /\ d_pc = "done" => (d_rc = 0 <=> d_params # {})

\* C23: another task runs only during the wait between two steps: whenever
\* one ran, the commands sent so far were the whole of the steps before the
\* wait, never a part of a step, never before step 0 and never between the
\* last step and the final zero commands.
C23_YieldsOnlyBetweenSteps ==
  \A p \in r_yields :
    LET d == Cardinality(TrajectoryDevices)
    IN  \E i \in 1..(Len(r_time_rel) - 1) : p = i * d

\* C23 witness: replay of two steps to two devices completed, and another
\* task ran in the wait between the steps
C23_YieldedBetweenTheSteps ==
  /\ r_pc = "done" /\ Len(r_time_rel) = 2 /\ Cardinality(TrajectoryDevices) = 2
  /\ r_yields = {2} /\ Len(r_sent) = 6

\* The cancellation was requested during a wait or between two step
\* dispatches: after the sends of a step and before the wait of the next
\* step has returned
CancelledBetweenSteps ==
  \/ r_cancel.pc = "sleeping"
  \/ r_cancel.pc = "loop" /\ r_cancel.sent > 0

\* C25: once a cancellation was requested during a wait or between two
\* step dispatches, no command of a trajectory step is sent any more, also
\* when the step before overran and the wait due is zero or negative.
C25_NoStepAfterCancel ==
  CancelledBetweenSteps =>
    /\ \A k \in (r_cancel.sent + 1)..Len(r_sent) : r_sent[k].step = 0
    /\ r_pc \in {"loop", "sleeping", "cancelled"}

\* C25 witness: cancellation was requested between two steps when the time
\* of the next step had passed already, and replay ended cancelled with the
\* commands of the first step only
C25_CancelledWithoutWaitDue ==
  /\ r_pc = "cancelled" /\ r_cancel.pc = "loop" /\ r_cancel.sent > 0
  /\ r_wake = now /\ now > r_start_time + r_time_rel[r_time_idx]
  /\ Len(r_sent) = r_cancel.sent

\* C24: the wait of a step is computed from start_time, not from the
\* dispatch before it: when the sends of the step before end no later than
\* start_time + time_rel[i], the sleep of step i is set to end at exactly
\* that time, however late the earlier steps were sent.
C24_WaitEndsAtReferenceTime ==
  [][(r_pc = "loop" /\ r_pc' = "sleeping"
        /\ now <= r_start_time + r_time_rel[r_time_idx])
       => r_wake' = r_start_time + r_time_rel[r_time_idx]]_vars

\* C24 witness: step 0 was sent late, after start_time, and the wait of
\* step 1 still ends at start_time + time_rel[1], which is yet to come
C24_LateStepThenWaitToReference ==
  /\ r_pc = "sleeping" /\ r_time_idx = 2
  /\ now > r_start_time
  /\ r_wake = r_start_time + r_time_rel[2] /\ r_wake > now

\* The trajectory steps whose sends have ended
StepsSent ==
  IF r_pc \in {"loop", "sleeping", "dispatch", "cancelled"} THEN 1..(r_time_idx - 1)
  ELSE IF r_pc \in {"stop", "done"} THEN 1..Len(r_time_rel)
  ELSE {}

\* The channel on which discovery found the device
FoundOn(id) ==
  r_drivers[CHOOSE d \in 1..Len(r_drivers) : id \in Range(r_drivers[d].ids)].ch

\* C26: in every step sent, each device of the trajectory got exactly one
\* command, through the channel it was found on; no command at all went to
\* an id outside the trajectory, whatever the scan reported.
C26_OneCommandPerDevicePerStep ==
  /\ \A t \in StepsSent : \A id \in TrajectoryDevices :
       /\ Cardinality({k \in 1..Len(r_sent) : r_sent[k].step = t /\ r_sent[k].id = id}) = 1
       /\ \A k \in 1..Len(r_sent) :
            (r_sent[k].step = t /\ r_sent[k].id = id) => r_sent[k].ch = FoundOn(id)
  /\ \A k \in 1..Len(r_sent) : r_sent[k].id \in TrajectoryDevices

\* C26 witness: the scan of the range 1..3 reported motor 2, which is not
\* in the trajectory of motors 1 and 3, and replay completed two steps
C26_OtherMotorReportedNotCommanded ==
  /\ r_pc = "done" /\ Len(r_time_rel) = 2
  /\ TrajectoryDevices = {1, 3} /\ 2 \in present[Can0]
  /\ \A k \in 1..Len(r_sent) : r_sent[k].id # 2

\* The ids of the commands of a step (0: the final zero commands) sent
\* through a channel, in the order they were sent
RECURSIVE IdsSent(_, _, _)
IdsSent(t, ch, k) ==
  IF k > Len(r_sent) THEN <<>>
  ELSE (IF r_sent[k].step = t /\ r_sent[k].ch = ch THEN <<r_sent[k].id>> ELSE <<>>)
         \o IdsSent(t, ch, k + 1)

\* C27: on a channel the commands of every step sent, and of the final
\* zero commands, go to the devices in one and the same order, the order
\* in which the scan of that channel enumerated them.
C27_EnumerationOrderKept ==
  \A d \in 1..Len(r_drivers) :
    \A t \in StepsSent \cup (IF r_pc = "done" THEN {0} ELSE {}) :
      IdsSent(t, r_drivers[d].ch, 1) = r_drivers[d].ids

\* C27 witness: the scan enumerated motor 3 before motor 1, and two steps
\* and the final zero commands were sent
C27_DescendingEnumerationKept ==
  /\ r_pc = "done" /\ Len(r_time_rel) = 2
  /\ r_drivers = <<[ch |-> Can0, ids |-> <<3, 1>>]>>
  /\ Len(r_sent) = 6

\* C29: replay has sent no command, neither of a step nor a final zero
\* command, unless every device of the trajectory was found by the scan of
\* a channel.
C29_NoCommandUnlessAllFound ==
  r_sent # <<>> => TrajectoryDevices \subseteq ReplayFound

\* C29 witness: of the two devices of the trajectory one was found and one
\* was not, and replay ended at its check without a command
C29_EndedWithOneDeviceMissing ==
  /\ r_pc = "exit_missing" /\ r_sent = <<>>
  /\ Cardinality(TrajectoryDevices) = 2
  /\ Cardinality(ReplayFound) = 1 /\ Len(r_missing) = 1

\* C28: once every device of the trajectory was found and the main loop is
\* entered, replay reaches its end with the final zero command sent to every
\* device, unless the run is interrupted or a send raises; a wait whose
\* delay is zero or negative does not block it.
C28_ReplayCompletes ==
  (r_pc = "loop")
    ~> \/ r_pc = "done" /\ \A id \in TrajectoryDevices : StoppedLast(id)
       \/ r_cancel # NoCancel
       \/ r_pc = "crash_send"

\* C28 witness: a run of three steps, the second one second before the
\* first, so that its wait has a negative delay, completed without an
\* interrupt
C28_CompletedAfterNegativeWait ==
  /\ r_pc = "done" /\ r_cancel = NoCancel
  /\ Len(r_time_rel) >= 2 /\ r_time_rel[2] < 0
  /\ \A id \in TrajectoryDevices : StoppedLast(id)
  /\ TrajectoryDevices # {}

\* The value is representable in the data type: 0..255 for uint8, 0..65535
\* for uint16, not negative for uint32, the signed range for int16 and int32
FitsDataType(data_type, x) ==
  CASE data_type = "uint8"  -> x \in 0..255
    [] data_type = "uint16" -> x \in 0..65535
    [] data_type = "uint32" -> x >= 0
    [] data_type = "int16"  -> x \in -32768..32767
    [] data_type = "int32"  -> x >= -2147483647 - 1 /\ x <= 2147483647
    [] OTHER -> TRUE

\* C30: in the limits of every variant, the lower bound of a descriptor is
\* at most its upper bound and both bounds are representable in the
\* descriptor's data type.
C30_BoundsFitDataType ==
  (t_op = "limits" /\ t_out.raised = None) =>
    \A idx \in DOMAIN t_out.value :
      LET data_type == LoadedBounds[t_in.servo_type][idx].data_type
      IN  /\ t_out.value[idx][1] <= t_out.value[idx][2]
          /\ FitsDataType(data_type, t_out.value[idx][1])
          /\ FitsDataType(data_type, t_out.value[idx][2])
====
